---- MODULE Spec2Model ----
(***************************************************************************)
(* kanvas: the halftone quantization filter ("Mibae filter") of the        *)
(* KanvasCanvas web component, its pattern cache and pattern search, and   *)
(* the canvas the filter stamps into.                                      *)
(*                                                                         *)
(* Two snapshots of KanvasCanvas.ts are among the sources:                 *)
(*   src/unnamed/part_000  synchronous filter, tiles rendered through a    *)
(*                         shared scratch canvas, squared RGB distance;    *)
(*   src/README.md         asynchronous filter (one suspension per row),   *)
(*                         tiles built directly, colorDiff with a cache.   *)
(* Definitions of the README snapshot that differ carry the suffix Async.  *)
(*                                                                         *)
(* A pixel is <<r, g, b, a>>, 8-bit channels.  An ImageData of w*h pixels  *)
(* is the row-major sequence of its pixels (index y*w + x + 1).            *)
(* JavaScript numbers that are not integers are kept as exact fractions.   *)
(***************************************************************************)
EXTENDS Integers, Sequences, FiniteSets, TLC

VARIABLES
  patternImageDataCache,  \* part_000:67  key -> tile; a key is absent while its slot is undefined
  patternCanvas,          \* part_000:56  the shared scratch canvas tiles are rendered on
  data,                   \* the window handed to the last search
  patterns,               \* the candidate list handed to the last search
  bestPattern,            \* what the last getBestPattern call returned
  bestPatternDistance,    \* its bestPatternDistance when it returned
  selection,              \* the (toneType, backgroundColor, foregroundColor) chosen for the window
  normalizedData,         \* the normalized copy of the window (part_000:479)
  tile,                   \* what the last getPatternImageData call returned
  op,                     \* the last call made: "none", "search", "tone", "render"
  calls,                  \* number of calls made so far
  searches,               \* the getBestPattern calls made for the last cell quantized, in order
  canvas,                 \* README:270  this.canvas: width, height and pixels
  actualZoom,             \* README:282  this.actualZoom
  colorDiffCache,         \* README:207  key -> difference
  runs,                   \* the applyMibaeFilter calls made so far, each with its own locals
  current,                \* the run whose row is executing; 0 while no code of a run executes
  pending,                \* load calls waiting for the load event of their image (README:420-428)
  history,                \* README:274  this.history
  historyIndex,           \* README:275  this.historyIndex
  transactionMode,        \* README:281  this.transactionMode
  prevPosition,           \* README:277  this.prevPosition
  used,                   \* host events made so far, by kind
  mode,                   \* README:276  this.mode
  textPreviewRect,        \* README:279  the text preview: its textContent and position
  pointerEvent,           \* the last kanvasPointer* event delivered, and how many were
  kanvasHistoryChange,    \* README:701-715  the last event dispatched, and how many were (mod 2)
  undoButton,             \* part_001:82  the dialog's undo button
  redoButton              \* part_001:81  the dialog's redo button

searchVars ==
  <<patternCanvas, data, patterns, bestPattern, bestPatternDistance, selection,
    normalizedData, tile, op, calls, searches>>

\* What the filter, the loads and the calls of undo and redo never write.
pointerVars == <<mode, textPreviewRect, pointerEvent>>

\* What a dispatch of kanvasHistoryChange writes.
dialogVars == <<kanvasHistoryChange, undoButton, redoButton>>

widgetVars ==
  <<canvas, actualZoom, colorDiffCache, runs, current, pending, history, historyIndex,
    transactionMode, prevPosition, used, pointerVars, dialogVars>>

vars == <<patternImageDataCache, searchVars, widgetVars>>

(***************************************************************************)
(* tones.ts and palettes.ts: imported by the sources, not among them.      *)
(***************************************************************************)
tonePeriod == 4

tones ==
  [ fill       |-> << <<1,1,1,1>>, <<1,1,1,1>>, <<1,1,1,1>>, <<1,1,1,1>> >>,
    horizontal |-> << <<1,1,1,1>>, <<0,0,0,0>>, <<0,0,0,0>>, <<0,0,0,0>> >>,
    slash      |-> << <<1,0,0,0>>, <<0,0,0,1>>, <<0,0,1,0>>, <<0,1,0,0>> >> ]

\* Object.keys(tones), in definition order
toneTypes == << "fill", "horizontal", "slash" >>

palettes ==
  [ light |-> << "hsl(0, 0%, 100%)", "hsl(0, 67%, 67%)" >>,
    dark  |-> << "hsl(0, 0%, 0%)", "hsl(240, 33%, 33%)" >> ]

\* Object.values(palettes), in definition order
paletteValues == << palettes.light, palettes.dark >>

\* const colors = Object.values(palettes).flat()
colors == palettes.light \o palettes.dark

\* const tonePeriodRange = [...Array(tonePeriod).keys()]
tonePeriodRange == [i \in 1 .. tonePeriod |-> i - 1]

Range(s) == {s[i] : i \in DOMAIN s}

\* The slots patternImageDataCache is preallocated with.
PatternKeys ==
  [ toneType : Range(toneTypes), backgroundColor : Range(colors),
    foregroundColor : Range(colors),
    offsetY : Range(tonePeriodRange), offsetX : Range(tonePeriodRange) ]

\* The element of a one-element set.  Only({ e(v) : v \in {x} }) is e(x) with
\* x computed once and named v.
Only(S) == CHOOSE v \in S : TRUE

(***************************************************************************)
(* Canvas primitives.                                                      *)
(***************************************************************************)
\* The sRGB bytes a 2D context paints for a CSS colour of the palette.
ColorRGB(color) ==
  CASE color = "hsl(0, 0%, 100%)"   -> <<255, 255, 255>>
    [] color = "hsl(0, 67%, 67%)"   -> <<227, 114, 114>>
    [] color = "hsl(0, 0%, 0%)"     -> <<0, 0, 0>>
    [] color = "hsl(240, 33%, 33%)" -> <<56, 56, 112>>
    [] color = "#000000"            -> <<0, 0, 0>>

TransparentBlack == <<0, 0, 0, 0>>

\* A new canvas element of w*h pixels: transparent black everywhere.
createCanvas(w, h) == [width |-> w, height |-> h, data |-> [i \in 1 .. w * h |-> TransparentBlack]]

\* context.getImageData(sx, sy, sw, sh): pixels outside the canvas read transparent black.
getImageData(element, sx, sy, sw, sh) ==
  [i \in 1 .. sw * sh |->
     LET x == sx + ((i - 1) % sw)
         y == sy + ((i - 1) \div sw)
     IN IF x >= 0 /\ x < element.width /\ y >= 0 /\ y < element.height
        THEN element.data[y * element.width + x + 1]
        ELSE TransparentBlack]

\* context.fillStyle = color; context.fillRect(x, y, w, h) with an opaque colour:
\* every covered pixel inside the canvas becomes the colour, alpha 255.

fillRect(element, color, x, y, w, h) ==
  [element EXCEPT !.data =
     [i \in DOMAIN element.data |->
        IF /\ (i - 1) % element.width >= x /\ (i - 1) % element.width < x + w
           /\ (i - 1) \div element.width >= y /\ (i - 1) \div element.width < y + h
        THEN ColorRGB(color) \o <<255>>
        ELSE element.data[i]]]

(***************************************************************************)
(* getPatternImageData, part_000:102-145.                                  *)
(***************************************************************************)
\* Mutant: only the foreground pixels are painted; the others keep what the
\* scratch canvas held before.
renderPatternForegroundOnly(element, pattern) ==
  [element EXCEPT !.data =
     [i \in 1 .. element.width * element.height |->
        LET px == (i - 1) % element.width
            py == (i - 1) \div element.width
            isForeground ==
              tones[pattern.toneType][((py + pattern.offsetY) % tonePeriod) + 1]
                                     [((px + pattern.offsetX) % tonePeriod) + 1]
        IN IF isForeground # 0
           THEN fillRect(element, pattern.foregroundColor, px, py, 1, 1).data[i]
           ELSE element.data[i]]]

\* The two nested forEach loops over tonePeriodRange (part_000:120-131): each
\* (x, y) of the range paints its own pixel of the scratch canvas once, so the
\* canvas they leave holds the painted colour at every pixel some (x, y)
\* addresses and its earlier content elsewhere.
renderPattern(element, pattern) ==
  [element EXCEPT !.data =
     [i \in 1 .. element.width * element.height |->
        LET px == (i - 1) % element.width
            py == (i - 1) \div element.width
            isForeground ==
              tones[pattern.toneType][((py + pattern.offsetY) % tonePeriod) + 1]
                                     [((px + pattern.offsetX) % tonePeriod) + 1]
            fillStyle == IF isForeground # 0 THEN pattern.foregroundColor
                                             ELSE pattern.backgroundColor
        IN IF px \in Range(tonePeriodRange) /\ py \in Range(tonePeriodRange)
           THEN fillRect(element, fillStyle, px, py, 1, 1).data[i]
           ELSE element.data[i]]]

\* part_000:109-116: the slot of the key, undefined (absent) until it is stored.
cachedPatternImageData(cache, pattern) ==
  IF pattern \in DOMAIN cache THEN cache[pattern] ELSE <<>>

\* Returns the tile together with the cache and the scratch canvas it leaves.
getPatternImageData(cache, element, pattern) ==
  IF cachedPatternImageData(cache, pattern) # <<>>
  THEN [imageData |-> cachedPatternImageData(cache, pattern), cache |-> cache, canvas |-> element]
  ELSE Only({ Only({ [imageData |-> patternImageData,
                      cache |-> [k \in DOMAIN cache \cup {pattern} |->
                                   IF k = pattern THEN patternImageData ELSE cache[k]],
                      canvas |-> painted]
                     : patternImageData \in {getImageData(painted, 0, 0, tonePeriod, tonePeriod)} })
              : painted \in {renderPattern(element, pattern)} })

(***************************************************************************)
(* getBestPattern, part_000:147-181.                                       *)
(***************************************************************************)
\* let bestPatternDistance = Infinity: a mark no distance is below.
Infinity == -1

\* Mutant: a candidate as good as the best so far replaces it.
LessThanOrEqual(distance, best) == best = Infinity \/ distance <= best

\* distance < bestPatternDistance
LessThan(distance, best) == best = Infinity \/ distance < best

\* patterns[0] of an empty list
undefined == [undefined |-> TRUE]

\* Mutant: the differences are summed without being squared.
pixelDistanceSigned(p, t) == (p[1] - t[1]) + (p[2] - t[2]) + (p[3] - t[3])

\* part_000:168-171: the squared RGB distance of a window pixel and a tile pixel.
pixelDistance(p, t) ==
  (p[1] - t[1]) * (p[1] - t[1]) + (p[2] - t[2]) * (p[2] - t[2]) + (p[3] - t[3]) * (p[3] - t[3])

\* The sum of term[i] over the indices i of S, taken in increasing order.
RECURSIVE SumOver(_, _)
SumOver(S, term) ==
  Only({ IF s = {} THEN 0
         ELSE Only({ t[i] + SumOver(s \ {i}, t) : i \in {CHOOSE m \in s : \A n \in s : m <= n} })
         : s \in {S}, t \in {term} })

\* Mutant: the alpha test is missing, every pixel of the window is summed.
sumDistanceAllPixels(cache, element, window, pattern) ==
  Only({ [distance |->
            SumOver(DOMAIN window,
              [i \in DOMAIN window |-> pixelDistance(window[i], first.imageData[i])]),
          cache |-> first.cache, canvas |-> first.canvas]
         : first \in {getPatternImageData(cache, element, pattern)} })

\* Mutant: only fully transparent pixels are skipped.
sumDistanceAlphaZero(cache, element, window, pattern) ==
  Only({ IF inside = {}
         THEN [distance |-> 0, cache |-> cache, canvas |-> element]
         ELSE Only({ [distance |->
                        SumOver(inside,
                          [i \in inside |-> pixelDistance(window[i], first.imageData[i])]),
                      cache |-> first.cache, canvas |-> first.canvas]
                     : first \in {getPatternImageData(cache, element, pattern)} })
         : inside \in {{i \in DOMAIN window : window[i][4] # 0}} })

\* The for loop over dataIndex (part_000:160-172) for one candidate; i is the
\* pixel index dataIndex / 4 + 1.  getPatternImageData is called at every
\* opaque pixel: the call at the first one may render and store the tile
\* (first), every later call finds the cache as that call left it (later).
\* A window without an opaque pixel makes no call.
sumDistance(cache, element, window, pattern) ==
  Only({ IF opaque = {}
         THEN [distance |-> 0, cache |-> cache, canvas |-> element]
         ELSE Only({ Only({ [distance |->
                               SumOver(opaque,
                                 [i \in opaque |->
                                    pixelDistance(window[i],
                                      IF \A n \in opaque : i <= n THEN first.imageData[i]
                                                                  ELSE later.imageData[i])]),
                             cache |-> IF Cardinality(opaque) = 1 THEN first.cache
                                                                  ELSE later.cache,
                             canvas |-> IF Cardinality(opaque) = 1 THEN first.canvas
                                                                   ELSE later.canvas]
                            : later \in {getPatternImageData(first.cache, first.canvas, pattern)} })
                     : first \in {getPatternImageData(cache, element, pattern)} })
         : opaque \in {{i \in DOMAIN window : window[i][4] = 255}} })

\* patterns.forEach (part_000:157-178); st = [bestPattern, bestPatternDistance, cache, canvas].
RECURSIVE forEachPattern(_, _, _, _)
forEachPattern(window, candidates, j, st) ==
  Only({ IF at > Len(list) THEN best
         ELSE Only({ forEachPattern(w, list, at + 1,
                       IF LessThan(r.distance, best.bestPatternDistance)
                       THEN [bestPattern |-> list[at], bestPatternDistance |-> r.distance,
                             cache |-> r.cache, canvas |-> r.canvas]
                       ELSE [best EXCEPT !.cache = r.cache, !.canvas = r.canvas])
                     : r \in {sumDistance(best.cache, best.canvas, w, list[at])} })
         : w \in {window}, list \in {candidates}, at \in {j}, best \in {st} })

getBestPattern(cache, element, window, candidates) ==
  forEachPattern(window, candidates, 1,
    [bestPattern |-> IF candidates = <<>> THEN undefined ELSE candidates[1],
     bestPatternDistance |-> Infinity, cache |-> cache, canvas |-> element])

(***************************************************************************)
(* Window normalization and tone selection, part_000:479-537.              *)
(***************************************************************************)
\* A JavaScript number: a fraction n/d with d > 0, or NaN, Infinity, -Infinity.
Num(n, d) == [kind |-> "number", n |-> n, d |-> d]
NaN == [kind |-> "NaN", n |-> 0, d |-> 1]
PosInfinity == [kind |-> "Infinity", n |-> 1, d |-> 1]
NegInfinity == [kind |-> "-Infinity", n |-> -1, d |-> 1]

\* n / d in IEEE arithmetic for integers n, d: x/0 is an infinity, 0/0 is NaN.
Divide(n, d) ==
  IF d > 0 THEN Num(n, d)
  ELSE IF d < 0 THEN Num(-n, -d)
  ELSE IF n > 0 THEN PosInfinity
  ELSE IF n < 0 THEN NegInfinity
  ELSE NaN

\* The integer nearest to n/d (d > 0), a tie going to the even neighbour.
RoundHalfEven(n, d) ==
  LET q == n \div d
      r == n % d
  IN IF 2 * r < d THEN q
     ELSE IF 2 * r > d THEN q + 1
     ELSE IF q % 2 = 0 THEN q ELSE q + 1

\* Mutant: the store of a plain number array: nothing is clamped, and NaN and
\* the infinities stay what they are (marked here by values outside 0..255).
ToNumberUnclamped(v) ==
  IF v.kind = "NaN" THEN -1
  ELSE IF v.kind = "Infinity" THEN 256
  ELSE IF v.kind = "-Infinity" THEN -256
  ELSE RoundHalfEven(v.n, v.d)

\* A store into a Uint8ClampedArray element: NaN becomes 0, the value is
\* clamped to 0..255 and rounded, ties to even.
ToUint8Clamp(v) ==
  IF v.kind = "NaN" THEN 0
  ELSE IF v.kind = "Infinity" THEN 255
  ELSE IF v.kind = "-Infinity" THEN 0
  ELSE IF v.n <= 0 THEN 0
  ELSE IF v.n >= 255 * v.d THEN 255
  ELSE RoundHalfEven(v.n, v.d)

\* part_000:492-495: r * 0.299 + g * 0.587 + b * 0.114, in thousandths.
average1000(pixel) == pixel[1] * 299 + pixel[2] * 587 + pixel[3] * 114

\* part_000:480-503: the lightnesses of the opaque pixels, in thousandths.
lightnesses(window) ==
  {average1000(window[i]) : i \in {j \in DOMAIN window : window[j][4] = 255}}

SetMax(S) == CHOOSE m \in S : \A n \in S : n <= m
SetMin(S) == CHOOSE m \in S : \A n \in S : m <= n

\* part_000:518-522 for one opaque pixel whose channels hold the rounded
\* average: ((value - minLightness) * 255) / (maxLightness - minLightness).
normalizedValue(pixel, minLightness1000, maxLightness1000) ==
  LET value == ToUint8Clamp(Num(average1000(pixel), 1000))
  IN ToUint8Clamp(Divide((value * 1000 - minLightness1000) * 255,
                         maxLightness1000 - minLightness1000))

\* Mutant: the tone is searched against the window as it is.
normalizeNone(window) == window

\* part_000:479-523: the normalized copy of the window.  Pixels that are not
\* opaque are copied unchanged.
normalize(window) ==
  [i \in DOMAIN window |->
     IF window[i][4] # 255 THEN window[i]
     ELSE LET v == normalizedValue(window[i], SetMin(lightnesses(window)),
                                               SetMax(lightnesses(window)))
          IN <<v, v, v, 255>>]

\* part_000:530-536: the candidates of the tone search.
tonePatterns(offsetY, offsetX) ==
  [i \in DOMAIN toneTypes |->
     [toneType |-> toneTypes[i], backgroundColor |-> palettes.light[1],
      foregroundColor |-> palettes.dark[1], offsetY |-> offsetY, offsetX |-> offsetX]]

\* part_000:459-461: paletteFromLightness, keyed by the first colour of each
\* palette; its keys in insertion order, and the palette of a key.
paletteFromLightnessKeys == [i \in DOMAIN paletteValues |-> paletteValues[i][1]]

\* Mutant: every key leads to the first palette.
paletteFromLightnessFirst(lightness) == paletteValues[1]

\* Mutant: a palette is stored without its first colour.
paletteFromLightnessOthers(lightness) ==
  Tail(paletteValues[CHOOSE i \in DOMAIN paletteValues : paletteValues[i][1] = lightness])

\* Mutant: every key leads to all the colours, so that the searches within a
\* tier range over the whole palette.
paletteFromLightnessAll(lightness) == colors

paletteFromLightness(lightness) ==
  paletteValues[CHOOSE i \in DOMAIN paletteValues : paletteValues[i][1] = lightness]

\* part_000:540-548 and 551-559: the candidates of a background search, one
\* for each colour of list.
backgroundPatterns(tone, list, offsetY, offsetX) ==
  [i \in DOMAIN list |->
     [toneType |-> tone, backgroundColor |-> list[i], foregroundColor |-> palettes.dark[1],
      offsetY |-> offsetY, offsetX |-> offsetX]]

\* part_000:562-570 and 573-581: the candidates of a foreground search.
foregroundPatterns(tone, background, list, offsetY, offsetX) ==
  [i \in DOMAIN list |->
     [toneType |-> tone, backgroundColor |-> background, foregroundColor |-> list[i],
      offsetY |-> offsetY, offsetX |-> offsetX]]

\* What is kept of a getBestPattern call: its candidates and what it returned.
searched(candidates, s) ==
  [patterns |-> candidates, bestPattern |-> s.bestPattern,
   bestPatternDistance |-> s.bestPatternDistance]

\* part_000:528-582: the five searches made for one cell: the tone (s1), the
\* lightness and the colour of the background (s2, s3), the lightness and the
\* colour of the foreground (s4, s5).  Returns the chosen tone and colours
\* with the cache and scratch canvas the searches leave.
quantize(cache, element, window, offsetY, offsetX) ==
  Only({ Only({ Only({ Only({ Only({
    [toneType |-> s1.bestPattern.toneType,
     backgroundColor |-> s3.bestPattern.backgroundColor,
     foregroundColor |-> s5.bestPattern.foregroundColor,
     tonePattern |-> s1.bestPattern, toneDistance |-> s1.bestPatternDistance,
     searches |->
       << searched(tonePatterns(offsetY, offsetX), s1),
          searched(backgroundPatterns(s1.bestPattern.toneType, paletteFromLightnessKeys,
                                      offsetY, offsetX), s2),
          searched(backgroundPatterns(s1.bestPattern.toneType,
                                      paletteFromLightness(s2.bestPattern.backgroundColor),
                                      offsetY, offsetX), s3),
          searched(foregroundPatterns(s1.bestPattern.toneType,
                                      s3.bestPattern.backgroundColor,
                                      paletteFromLightnessKeys, offsetY, offsetX), s4),
          searched(foregroundPatterns(s1.bestPattern.toneType,
                                      s3.bestPattern.backgroundColor,
                                      paletteFromLightness(s4.bestPattern.foregroundColor),
                                      offsetY, offsetX), s5) >>,
     cache |-> s5.cache, canvas |-> s5.canvas]
    : s5 \in {getBestPattern(s4.cache, s4.canvas, window,
                foregroundPatterns(s1.bestPattern.toneType, s3.bestPattern.backgroundColor,
                                   paletteFromLightness(s4.bestPattern.foregroundColor),
                                   offsetY, offsetX))} })
    : s4 \in {getBestPattern(s3.cache, s3.canvas, window,
                foregroundPatterns(s1.bestPattern.toneType, s3.bestPattern.backgroundColor,
                                   paletteFromLightnessKeys, offsetY, offsetX))} })
    : s3 \in {getBestPattern(s2.cache, s2.canvas, window,
                backgroundPatterns(s1.bestPattern.toneType,
                                   paletteFromLightness(s2.bestPattern.backgroundColor),
                                   offsetY, offsetX))} })
    : s2 \in {getBestPattern(s1.cache, s1.canvas, window,
                backgroundPatterns(s1.bestPattern.toneType, paletteFromLightnessKeys,
                                   offsetY, offsetX))} })
    : s1 \in {getBestPattern(cache, element, normalize(window),
                              tonePatterns(offsetY, offsetX))} })

(***************************************************************************)
(* README snapshot: getPatternImageData (164-205), colorDiffCache and      *)
(* getBestPattern (207-266).                                               *)
(***************************************************************************)
\* README:180-198: the tile is built pixel by pixel from the two colours.
newPatternImageData(pattern) ==
  [i \in 1 .. Len(tonePeriodRange) * Len(tonePeriodRange) |->
     LET y == tonePeriodRange[((i - 1) \div Len(tonePeriodRange)) + 1]
         x == tonePeriodRange[((i - 1) % Len(tonePeriodRange)) + 1]
         isForeground ==
           tones[pattern.toneType][((y + pattern.offsetY) % tonePeriod) + 1]
                                  [((x + pattern.offsetX) % tonePeriod) + 1]
     IN ColorRGB(IF isForeground # 0 THEN pattern.foregroundColor
                                     ELSE pattern.backgroundColor) \o <<255>>]

\* Mutant: the slot is addressed without offsetX.
patternSlotNoOffsetX(pattern) == [pattern EXCEPT !.offsetX = 0]

\* README:171-174: the cache slot a pattern addresses.
patternSlot(pattern) == pattern

\* Mutant: a cache of one entry; a tile stored evicts the one stored before.
getPatternImageDataEvicting(cache, pattern) ==
  IF patternSlot(pattern) \in DOMAIN cache
  THEN [imageData |-> cache[patternSlot(pattern)], cache |-> cache]
  ELSE Only({ [imageData |-> patternImageData,
               cache |-> [k \in {patternSlot(pattern)} |-> patternImageData]]
              : patternImageData \in {newPatternImageData(pattern)} })

\* README:164-205.  Returns the tile and the cache the call leaves.
getPatternImageDataAsync(cache, pattern) ==
  IF patternSlot(pattern) \in DOMAIN cache
  THEN [imageData |-> cache[patternSlot(pattern)], cache |-> cache]
  ELSE Only({ [imageData |-> patternImageData,
               cache |-> [k \in DOMAIN cache \cup {patternSlot(pattern)} |->
                            IF k = patternSlot(pattern) THEN patternImageData ELSE cache[k]]]
              : patternImageData \in {newPatternImageData(pattern)} })

\* The characters of the decimal digits.
digitChars == << "0", "1", "2", "3", "4", "5", "6", "7", "8", "9" >>

\* String(n) for a byte n, as the sequence of its characters.
NumberToString(n) ==
  IF n < 10 THEN << digitChars[n + 1] >>
  ELSE IF n < 100 THEN << digitChars[(n \div 10) + 1], digitChars[(n % 10) + 1] >>
  ELSE << digitChars[(n \div 100) + 1], digitChars[((n \div 10) % 10) + 1],
          digitChars[(n % 10) + 1] >>

\* Mutant: the six numbers are joined without a separator.
colorDiffKeyUnseparated(p, t) ==
  NumberToString(p[1]) \o NumberToString(p[2]) \o NumberToString(p[3])
    \o NumberToString(t[1]) \o NumberToString(t[2]) \o NumberToString(t[3])

\* README:230-237: [r, g, b, R, G, B].join("-"), the key of colorDiffCache, as
\* the sequence of its characters.
colorDiffKey(p, t) ==
  NumberToString(p[1]) \o <<"-">> \o NumberToString(p[2]) \o <<"-">> \o NumberToString(p[3])
    \o <<"-">> \o NumberToString(t[1]) \o <<"-">> \o NumberToString(t[2])
    \o <<"-">> \o NumberToString(t[3])

\* README:242-253: colorDiff.diff of the Lab values of a pixel and a tile
\* pixel.  The library's difference is not an integer; the squared RGB
\* distance the other snapshot computes in its place (part_000:168-171)
\* stands for it.
colorDiff(p, t) ==
  (p[1] - t[1]) * (p[1] - t[1]) + (p[2] - t[2]) * (p[2] - t[2])
    + (p[3] - t[3]) * (p[3] - t[3])

\* README:222-257 for one candidate: every opaque pixel looks its key up,
\* computes the difference when the key is absent, stores the value under
\* the key (255) and adds it to the distance.  A key absent at the start of
\* the loop is stored by the first pixel that has it.
sumDiffs(cache, diffCache, window, pattern) ==
  Only({ IF opaque = {}
         THEN [distance |-> 0, cache |-> cache, diffCache |-> diffCache]
         ELSE Only({ Only({ Only({
                [distance |-> SumOver(opaque, [i \in opaque |-> diff[keyAt[i]]]),
                 cache |-> got.cache,
                 diffCache |-> [k \in DOMAIN diffCache \cup DOMAIN diff |->
                                  IF k \in DOMAIN diff THEN diff[k] ELSE diffCache[k]]]
                : diff \in {[k \in {keyAt[i] : i \in opaque} |->
                              IF k \in DOMAIN diffCache THEN diffCache[k]
                              ELSE Only({ colorDiff(window[first], got.imageData[first])
                                          : first \in {CHOOSE i \in opaque :
                                                         /\ keyAt[i] = k
                                                         /\ \A j \in opaque :
                                                              keyAt[j] = k => i <= j} })]} })
                : keyAt \in {[i \in opaque |-> colorDiffKey(window[i], got.imageData[i])]} })
                : got \in {getPatternImageDataAsync(cache, pattern)} })
         : opaque \in {{i \in DOMAIN window : window[i][4] = 255}} })

\* README:219-263; st = [bestPattern, bestPatternDistance, cache, diffCache].
RECURSIVE forEachPatternAsync(_, _, _, _)
forEachPatternAsync(window, candidates, j, st) ==
  Only({ IF at > Len(list) THEN best
         ELSE Only({ forEachPatternAsync(w, list, at + 1,
                       IF LessThan(r.distance, best.bestPatternDistance)
                       THEN [bestPattern |-> list[at], bestPatternDistance |-> r.distance,
                             cache |-> r.cache, diffCache |-> r.diffCache]
                       ELSE [best EXCEPT !.cache = r.cache, !.diffCache = r.diffCache])
                     : r \in {sumDiffs(best.cache, best.diffCache, w, list[at])} })
         : w \in {window}, list \in {candidates}, at \in {j}, best \in {st} })

getBestPatternAsync(cache, diffCache, window, candidates) ==
  forEachPatternAsync(window, candidates, 1,
    [bestPattern |-> IF candidates = <<>> THEN undefined ELSE candidates[1],
     bestPatternDistance |-> Infinity, cache |-> cache, diffCache |-> diffCache])

(***************************************************************************)
(* README snapshot: one cell of applyMibaeFilter (549-694).                *)
(***************************************************************************)
\* README:576-582: Color({r, g, b}).grayscale().red(), in hundredths
\* (0.3 r + 0.59 g + 0.11 b).
average100(pixel) == pixel[1] * 30 + pixel[2] * 59 + pixel[3] * 11

lightnessesAsync(window) ==
  {average100(window[i]) : i \in {j \in DOMAIN window : window[j][4] = 255}}

\* README:605-609
normalizedValueAsync(pixel, minLightness100, maxLightness100) ==
  LET value == ToUint8Clamp(Num(average100(pixel), 100))
  IN ToUint8Clamp(Divide((value * 100 - minLightness100) * 255,
                         maxLightness100 - minLightness100))

\* README:563-610
normalizeAsync(window) ==
  Only({ [i \in DOMAIN window |->
            IF window[i][4] # 255 THEN window[i]
            ELSE Only({ <<v, v, v, 255>>
                        : v \in {normalizedValueAsync(window[i], minLightness, maxLightness)} })]
         : minLightness \in {SetMin(lightnessesAsync(window))},
           maxLightness \in {SetMax(lightnessesAsync(window))} })

\* a % n of JavaScript for n > 0: the sign follows a.
Remainder(a, n) == IF a >= 0 THEN a % n ELSE -((-a) % n)

Abs(a) == IF a < 0 THEN -a ELSE a

\* Mutant: begin % tonePeriod without Math.abs.
offsetOfSigned(begin) == Remainder(begin, tonePeriod)

\* README:612-613: Math.abs(begin % tonePeriod)
offsetOf(begin) == Abs(Remainder(begin, tonePeriod))

\* README:615-647: the three searches of one cell: the tone (s1), the
\* background colour (s2), the foreground colour (s3).
quantizeAsync(cache, diffCache, window, offsetY, offsetX) ==
  Only({ Only({ Only({
    [toneType |-> s1.bestPattern.toneType,
     backgroundColor |-> s2.bestPattern.backgroundColor,
     foregroundColor |-> s3.bestPattern.foregroundColor,
     cache |-> s3.cache, diffCache |-> s3.diffCache]
    : s3 \in {getBestPatternAsync(s2.cache, s2.diffCache, window,
                [i \in DOMAIN colors |->
                   [toneType |-> s1.bestPattern.toneType,
                    backgroundColor |-> s2.bestPattern.backgroundColor,
                    foregroundColor |-> colors[i],
                    offsetY |-> offsetY, offsetX |-> offsetX]])} })
    : s2 \in {getBestPatternAsync(s1.cache, s1.diffCache, window,
                [i \in DOMAIN colors |->
                   [toneType |-> s1.bestPattern.toneType, backgroundColor |-> colors[i],
                    foregroundColor |-> palettes.dark[1],
                    offsetY |-> offsetY, offsetX |-> offsetX]])} })
    : s1 \in {getBestPatternAsync(cache, diffCache, normalizeAsync(window),
                                   tonePatterns(offsetY, offsetX))} })

\* Mutant: the first entry points at the cell to the left.
ditheringPatternBackward ==
  << [deltaX |-> -1, deltaY |-> 0, rate32 |-> 7],
     [deltaX |-> -1, deltaY |-> 1, rate32 |-> 3],
     [deltaX |-> 0, deltaY |-> 1, rate32 |-> 5],
     [deltaX |-> 1, deltaY |-> 1, rate32 |-> 1] >>

\* Mutant: ditheringRate is 2, not 0.5.
ditheringPatternDoubled ==
  << [deltaX |-> 1, deltaY |-> 0, rate32 |-> 28],
     [deltaX |-> -1, deltaY |-> 1, rate32 |-> 12],
     [deltaX |-> 0, deltaY |-> 1, rate32 |-> 20],
     [deltaX |-> 1, deltaY |-> 1, rate32 |-> 4] >>

\* Mutant: ditheringRate is 0, nothing is diffused.
ditheringPatternNone ==
  << [deltaX |-> 1, deltaY |-> 0, rate32 |-> 0],
     [deltaX |-> -1, deltaY |-> 1, rate32 |-> 0],
     [deltaX |-> 0, deltaY |-> 1, rate32 |-> 0],
     [deltaX |-> 1, deltaY |-> 1, rate32 |-> 0] >>

\* README:102-124: ditheringPattern; the rates in 32nds
\* ((7/16, 3/16, 5/16, 1/16) * ditheringRate, ditheringRate = 0.5).
ditheringPattern ==
  << [deltaX |-> 1, deltaY |-> 0, rate32 |-> 7],
     [deltaX |-> -1, deltaY |-> 1, rate32 |-> 3],
     [deltaX |-> 0, deltaY |-> 1, rate32 |-> 5],
     [deltaX |-> 1, deltaY |-> 1, rate32 |-> 1] >>

\* Mutant: the pixel is written at the index y * width + x of the pixel array,
\* whether or not (x, y) lies on the canvas.
putPixelFlat(element, pixel, x, y) ==
  IF y * element.width + x + 1 \in DOMAIN element.data
  THEN [element EXCEPT !.data[y * element.width + x + 1] = pixel]
  ELSE element

\* context.putImageData of one pixel: nothing is written outside the canvas.
putPixel(element, pixel, x, y) ==
  IF x >= 0 /\ x < element.width /\ y >= 0 /\ y < element.height
  THEN [element EXCEPT !.data[y * element.width + x + 1] = pixel]
  ELSE element

\* Mutant: the share of the red channel is added to the alpha as well.
neighborhoodWithAlpha(n, original, put, rate32) ==
  [c \in 1 .. 4 |->
     IF c = 4 THEN ToUint8Clamp(Num(n[4] * 32 + (original[1] - put[1]) * rate32, 32))
     ELSE ToUint8Clamp(Num(n[c] * 32 + (original[c] - put[c]) * rate32, 32))]

\* README:685-687: NeighborhoodImageData.data after the three += of an entry;
\* data is a Uint8ClampedArray, its fourth element is not assigned.
neighborhood(n, original, put, rate32) ==
  [c \in 1 .. 4 |->
     IF c = 4 THEN n[4]
     ELSE ToUint8Clamp(Num(n[c] * 32 + (original[c] - put[c]) * rate32, 32))]

\* README:677-694: the forEach over ditheringPattern from entry j on; original
\* and put are the pixels read at 663-675.
RECURSIVE diffuse(_, _, _, _, _, _)
diffuse(shrinked, original, put, x, y, j) ==
  Only({ IF at > Len(ditheringPattern) THEN source
         ELSE Only({ diffuse(
                       putPixel(source,
                         neighborhood(n, original, put, ditheringPattern[at].rate32),
                         x + ditheringPattern[at].deltaX, y + ditheringPattern[at].deltaY),
                       original, put, x, y, at + 1)
                     : n \in {getImageData(source, x + ditheringPattern[at].deltaX,
                                           y + ditheringPattern[at].deltaY, 1, 1)[1]} })
         : source \in {shrinked}, at \in {j} })

\* Mutant: only the first pixel of the block is painted.
stampRectOnePixel(x, y, zoom) == [x |-> x * zoom, y |-> y * zoom, w |-> 1, h |-> 1]

\* README:655-660: the rectangle of the canvas filled for cell (x, y).
stampRect(x, y, zoom) == [x |-> x * zoom, y |-> y * zoom, w |-> zoom, h |-> zoom]

\* Mutant: the canvas is sampled at the cell's position in the filter's buffer.
putPositionUnzoomed(x, y, zoom) == <<x, y>>

\* README:670-675: the position at which the canvas is sampled for cell (x, y).
putPosition(x, y, zoom) == <<x * zoom, y * zoom>>

\* README:549-694: the body of the loops for cell (x, y): window, searches,
\* stamp on the canvas with the zoom of the moment, error diffusion.  cell
\* records the offsets, the selection and the two pixels read at 663-675.
mibaeCell(shrinked, element, zoom, cache, diffCache, x, y) ==
  Only({ Only({ Only({ Only({
    [shrinked |-> diffuse(shrinked, original, put, x, y, 1),
     canvas |-> stamped, cache |-> q.cache, diffCache |-> q.diffCache,
     error |-> [c \in 1 .. 3 |-> original[c] - put[c]],
     cell |-> [x |-> x, y |-> y, zoom |-> zoom, offsetY |-> offsetY, offsetX |-> offsetX,
               toneType |-> q.toneType, backgroundColor |-> q.backgroundColor,
               foregroundColor |-> q.foregroundColor, window |-> window,
               original |-> original, sampled |-> putPosition(x, y, zoom), put |-> put]]
    : original \in {getImageData(shrinked, x, y, 1, 1)[1]},
      put \in {getImageData(stamped, putPosition(x, y, zoom)[1],
                                    putPosition(x, y, zoom)[2], 1, 1)[1]} })
    : stamped \in {fillRect(element,
                     IF tones[q.toneType][(y % tonePeriod) + 1][(x % tonePeriod) + 1] # 0
                     THEN q.foregroundColor ELSE q.backgroundColor,
                     stampRect(x, y, zoom).x, stampRect(x, y, zoom).y,
                     stampRect(x, y, zoom).w, stampRect(x, y, zoom).h)} })
    : q \in {quantizeAsync(cache, diffCache, window, offsetY, offsetX)} })
    : window \in {getImageData(shrinked, x - tonePeriod \div 2, y - tonePeriod \div 2,
                               tonePeriod, tonePeriod)},
      offsetY \in {offsetOf(y - tonePeriod \div 2)},
      offsetX \in {offsetOf(x - tonePeriod \div 2)} })

(***************************************************************************)
(* The widget after construction (README:283-297).                         *)
(***************************************************************************)
\* README:281: transactionMode while no transaction is open.
noTransaction == "undefined"

\* The canvas element before any load: transparent, of the default size of a
\* canvas element (300 * 150), here at the scale of the images of SourceImages.
blankCanvas == createCanvas(2, 1)

InitWidget ==
  /\ canvas = blankCanvas
  /\ actualZoom = 0
  /\ colorDiffCache = <<>>
  /\ runs = <<>>
  /\ current = 0
  /\ pending = <<>>
  /\ history = <<>>
  /\ historyIndex = -1
  /\ transactionMode = noTransaction
  /\ prevPosition = <<0, 0>>
  /\ used = [load |-> 0, stroke |-> 0, restore |-> 0]
  /\ mode = "shape"
  /\ textPreviewRect = [textContent |-> "", position |-> <<0, 0>>]
  /\ pointerEvent = [type |-> "none", n |-> 0, returns |-> FALSE]
  /\ kanvasHistoryChange = [n |-> 0, detail |-> undefined]
  /\ undoButton = [disabled |-> TRUE]
  /\ redoButton = [disabled |-> TRUE]

(***************************************************************************)
(* SpecSearch: getBestPattern as a function of its inputs (part_000),      *)
(* called once on a window and a candidate list drawn from bounded sets,   *)
(* with the cache as it is at start-up.                                    *)
(***************************************************************************)
\* Number of window positions that vary; the others are transparent black.
WindowFree == 3
\* Longest candidate list drawn.
MaxPatterns == 2

\* Two opaque pixels and two pixels of the same alpha below 255.
SearchPixels ==
  { <<255, 255, 255, 255>>, <<56, 56, 112, 255>>, <<200, 10, 10, 128>>, <<255, 255, 255, 128>> }

\* The k-th varying position: a strip two pixels wide down the left of the window.
FreePosition(k) == ((k - 1) \div 2) * tonePeriod + ((k - 1) % 2) + 1

\* The windows whose first n varying positions hold pixels of S.
WindowsOver(S, n) ==
  { [i \in 1 .. tonePeriod * tonePeriod |->
       IF \E k \in 1 .. n : FreePosition(k) = i
       THEN f[CHOOSE k \in 1 .. n : FreePosition(k) = i]
       ELSE TransparentBlack] : f \in [1 .. n -> S] }

Windows == WindowsOver(SearchPixels, WindowFree)

Pattern(t, b, f, oy, ox) ==
  [toneType |-> t, backgroundColor |-> b, foregroundColor |-> f, offsetY |-> oy, offsetX |-> ox]

CandidatePool ==
  { Pattern("fill", palettes.light[1], palettes.dark[1], 0, 0),
    Pattern("fill", palettes.light[2], palettes.dark[1], 0, 0),
    Pattern("horizontal", palettes.light[1], palettes.dark[2], 1, 0),
    Pattern("slash", palettes.light[1], palettes.dark[1], 0, 0),
    Pattern("slash", palettes.light[2], palettes.dark[2], 0, 3) }

CandidateLists == UNION { [1 .. n -> CandidatePool] : n \in 1 .. MaxPatterns }

emptyCache == <<>>

InitSearch ==
  /\ patternImageDataCache = emptyCache
  /\ patternCanvas = createCanvas(tonePeriod, tonePeriod)
  /\ data \in Windows
  /\ patterns \in CandidateLists
  /\ bestPattern = undefined
  /\ bestPatternDistance = Infinity
  /\ selection = undefined
  /\ normalizedData = <<>>
  /\ tile = <<>>
  /\ op = "none"
  /\ calls = 0
  /\ searches = <<>>
  /\ InitWidget

\* getBestPattern({ data, patterns })
Search ==
  /\ calls = 0
  /\ \E r \in {getBestPattern(patternImageDataCache, patternCanvas, data, patterns)} :
        /\ bestPattern' = r.bestPattern
        /\ bestPatternDistance' = r.bestPatternDistance
        /\ patternImageDataCache' = r.cache
        /\ patternCanvas' = r.canvas
  /\ op' = "search"
  /\ calls' = calls + 1
  /\ UNCHANGED <<data, patterns, selection, normalizedData, tile, searches>>
  /\ UNCHANGED widgetVars

\* getBestPattern({ data, patterns: [] }): patterns[0] is undefined, forEach
\* has nothing to visit and the function returns bestPattern (part_000:154-180).
\* op records that the call has returned, bestPattern what it returned.
SearchEmpty ==
  /\ calls = 0
  /\ patterns' = <<>>
  /\ \E r \in {getBestPattern(patternImageDataCache, patternCanvas, data, <<>>)} :
        /\ bestPattern' = r.bestPattern
        /\ bestPatternDistance' = r.bestPatternDistance
        /\ patternImageDataCache' = r.cache
        /\ patternCanvas' = r.canvas
  /\ op' = "searchEmpty"
  /\ calls' = calls + 1
  /\ UNCHANGED <<data, selection, normalizedData, tile, searches>>
  /\ UNCHANGED widgetVars

NextSearch == Search \/ SearchEmpty

SpecSearch == InitSearch /\ [][NextSearch]_vars

(***************************************************************************)
(* SpecQuantize: the normalization of a window and the searches made for   *)
(* one cell (part_000:479-582), for windows drawn from a bounded set, with *)
(* the cache empty or holding one tile rendered earlier.                   *)
(***************************************************************************)
\* Number of window positions that vary in SpecQuantize.
QuantizeWindowFree == 3

\* Opaque pixels of palette colours and one pixel that is not opaque.
QuantizePixels ==
  { <<255, 255, 255, 255>>, <<227, 114, 114, 255>>, <<56, 56, 112, 255>>, <<200, 10, 10, 0>> }

\* The phases (offsetY, offsetX) the cell is quantized at.
QuantizeOffsets == { <<0, 0>>, <<0, 3>>, <<1, 0>>, <<2, 1>> }

\* The tiles an earlier run may have left in the cache.
WarmPool ==
  { Pattern("fill", palettes.light[1], palettes.dark[1], 0, 0),
    Pattern("horizontal", palettes.light[1], palettes.dark[1], 0, 3),
    Pattern("slash", palettes.light[1], palettes.dark[1], 1, 0),
    Pattern("slash", palettes.dark[1], palettes.dark[2], 2, 1),
    Pattern("horizontal", palettes.light[2], palettes.light[1], 3, 3) }

InitQuantize ==
  /\ patternImageDataCache = emptyCache
  /\ patternCanvas = createCanvas(tonePeriod, tonePeriod)
  /\ data \in WindowsOver(QuantizePixels, QuantizeWindowFree)
  /\ patterns = <<>>
  /\ bestPattern = undefined
  /\ bestPatternDistance = Infinity
  /\ selection = undefined
  /\ normalizedData = <<>>
  /\ tile = <<>>
  /\ op = "none"
  /\ calls = 0
  /\ searches = <<>>
  /\ InitWidget

\* An earlier getPatternImageData(pattern) call.
Warm ==
  \E pattern \in WarmPool :
    /\ calls = 0
    /\ \E r \in {getPatternImageData(patternImageDataCache, patternCanvas, pattern)} :
          /\ tile' = r.imageData
          /\ patternImageDataCache' = r.cache
          /\ patternCanvas' = r.canvas
    /\ op' = "render"
    /\ calls' = calls + 1
    /\ UNCHANGED <<data, patterns, bestPattern, bestPatternDistance, selection, normalizedData,
                   searches>>
    /\ UNCHANGED widgetVars

\* part_000:479-582 for one window at the given offsets.
Quantize ==
  \E o \in QuantizeOffsets :
    /\ op # "quantize"
    /\ normalizedData' = normalize(data)
    /\ patterns' = tonePatterns(o[1], o[2])
    /\ \E q \in {quantize(patternImageDataCache, patternCanvas, data, o[1], o[2])} :
          /\ bestPattern' = q.tonePattern
          /\ bestPatternDistance' = q.toneDistance
          /\ selection' = [toneType |-> q.toneType, backgroundColor |-> q.backgroundColor,
                           foregroundColor |-> q.foregroundColor]
          /\ patternImageDataCache' = q.cache
          /\ patternCanvas' = q.canvas
          /\ searches' = q.searches
    /\ op' = "quantize"
    /\ calls' = calls + 1
    /\ UNCHANGED <<data, tile>>
    /\ UNCHANGED widgetVars

NextQuantize == Warm \/ Quantize

SpecQuantize == InitQuantize /\ [][NextQuantize]_vars

(***************************************************************************)
(* SpecRender: getPatternImageData (part_000:102-145) called a bounded     *)
(* number of times, on keys drawn from a pool, in any order.               *)
(***************************************************************************)
\* Number of getPatternImageData calls made.
MaxRenders == 2

RenderPool ==
  { Pattern(t, palettes.light[1], f, o[1], o[2]) :
      t \in Range(toneTypes), f \in {palettes.dark[1], palettes.light[2]},
      o \in { <<0, 0>>, <<1, 3>> } }

InitRender ==
  /\ patternImageDataCache = emptyCache
  /\ patternCanvas = createCanvas(tonePeriod, tonePeriod)
  /\ data = <<>>
  /\ patterns = <<>>
  /\ bestPattern = undefined
  /\ bestPatternDistance = Infinity
  /\ selection = undefined
  /\ normalizedData = <<>>
  /\ tile = <<>>
  /\ op = "none"
  /\ calls = 0
  /\ searches = <<>>
  /\ InitWidget

\* getPatternImageData(pattern); patterns records the key of the call.
Render ==
  \E pattern \in RenderPool :
    /\ calls < MaxRenders
    /\ \E r \in {getPatternImageData(patternImageDataCache, patternCanvas, pattern)} :
          /\ tile' = r.imageData
          /\ patternImageDataCache' = r.cache
          /\ patternCanvas' = r.canvas
    /\ patterns' = <<pattern>>
    /\ op' = "render"
    /\ calls' = calls + 1
    /\ UNCHANGED <<data, bestPattern, bestPatternDistance, selection, normalizedData, searches>>
    /\ UNCHANGED widgetVars

NextRender == Render

SpecRender == InitRender /\ [][NextRender]_vars

(***************************************************************************)
(* Spec: the widget of the README snapshot.  load (403-468) and the filter *)
(* it starts (521-699), the pointer transaction in shape mode (820-936),   *)
(* undo and redo (470-504), history (787-816).  JavaScript runs one task   *)
(* at a time: a row of the filter, the continuation of a load or an event  *)
(* handler runs to its end before another starts.  A row of the filter is  *)
(* taken cell by cell here, and nothing else moves before the row's await. *)
(***************************************************************************)
\* brushes.ts is imported by the sources, not among them: the bitmap of the
\* brush the constructor selects ("small", README:286), one pixel.
brushes == [small |-> << <<1>> >>]

\* README:285 and 293: this.color and this.toneType after construction.
color == "#000000"
toneType == "fill"

\* README:431: 320 * 180, the area images are scaled to, here at the scale
\* of the images of SourceImages.
TargetArea == 6

\* Math.round(natural * Math.sqrt(TargetArea / (naturalWidth * naturalHeight)))
\* for natural = a, other = b: the r with r - 1/2 <= sqrt(TargetArea * a / b) < r + 1/2.
scaledSize(a, b) ==
  CHOOSE r \in 0 .. TargetArea * a :
    /\ (r = 0 \/ (2 * r - 1) * (2 * r - 1) * b <= 4 * TargetArea * a)
    /\ 4 * TargetArea * a < (2 * r + 1) * (2 * r + 1) * b

\* context.drawImage(image, 0, 0, dw, dh) on a canvas of dw*dh pixels with
\* imageSmoothingEnabled = false: each pixel takes the image's pixel under
\* its centre.
drawImage(image, dw, dh) ==
  [width |-> dw, height |-> dh,
   data |-> [i \in 1 .. dw * dh |->
               LET dx == (i - 1) % dw
                   dy == (i - 1) \div dw
                   sx == ((2 * dx + 1) * image.width) \div (2 * dw)
                   sy == ((2 * dy + 1) * image.height) \div (2 * dh)
               IN image.data[sy * image.width + sx + 1]]]

\* README:756-785: drawPoint from brush cell k on (row by row); begin is
\* (beginX, beginY), p the canvas position (x, y) of the brush cell.
RECURSIVE drawBrush(_, _, _, _)
drawBrush(element, zoom, position, k) ==
  Only({ IF at >= Len(brushes.small) * Len(brushes.small[1]) THEN target
         ELSE Only({ drawBrush(
                       IF brushes.small[Abs(p[2] - begin[2]) + 1][Abs(p[1] - begin[1]) + 1] = 0
                          \/ tones[toneType][offsetOf(p[2]) + 1][offsetOf(p[1]) + 1] = 0
                       THEN target
                       ELSE fillRect(target, color, p[1] * zoom, p[2] * zoom, zoom, zoom),
                       zoom, position, at + 1)
                     : p \in {<<begin[1] + (at % Len(brushes.small[1])),
                                begin[2] + (at \div Len(brushes.small[1]))>>} })
         : target \in {element}, at \in {k},
           begin \in {<<position[1] - (Len(brushes.small[1]) - 1) \div 2,
                        position[2] - (Len(brushes.small) - 1) \div 2>>} })

drawPoint(element, zoom, position) == drawBrush(element, zoom, position, 0)

\* Math.round of n/d for d > 0: the nearest integer, a tie going up.
MathRound(n, d) == (2 * n + d) \div (2 * d)

\* Math.round(Math.sqrt(n)) for an integer n >= 0.
roundSqrt(n) == CHOOSE r \in 0 .. n : (r = 0 \/ (2 * r - 1) * (2 * r - 1) <= 4 * n)
                                       /\ 4 * n < (2 * r + 1) * (2 * r + 1)

\* README:741-754: drawLine from step on.
RECURSIVE drawSteps(_, _, _, _, _)
drawSteps(element, zoom, from, to, step) ==
  Only({ IF at >= stepLength THEN target
         ELSE drawSteps(
                drawPoint(target, zoom,
                  << MathRound(from[1] * stepLength + (to[1] - from[1]) * at, stepLength),
                     MathRound(from[2] * stepLength + (to[2] - from[2]) * at, stepLength) >>),
                zoom, from, to, at + 1)
         : target \in {element}, at \in {step},
           stepLength \in {roundSqrt((to[1] - from[1]) * (to[1] - from[1])
                                     + (to[2] - from[2]) * (to[2] - from[2]))} })

drawLine(element, zoom, from, to) == drawSteps(element, zoom, from, to, 0)

\* README:87
historyMaxLength == 30

\* Mutant: the push appends to the whole list and keeps the redo tail.
pushImageToHistoryKeepingTail(element, h, hi) ==
  IF hi >= 0 /\ h[hi + 1] = element
  THEN [history |-> h, historyIndex |-> hi, dispatches |-> FALSE]
  ELSE [history |-> Append(h, element), historyIndex |-> Len(h), dispatches |-> TRUE]

\* README:787-808: pushImageToHistory; the data URL of a canvas is the
\* canvas's width, height and pixels.  Returns history and historyIndex, and
\* whether it went on to dispatchChangeHistoryEvent (807).
pushImageToHistory(element, h, hi) ==
  IF hi >= 0 /\ h[hi + 1] = element
  THEN [history |-> h, historyIndex |-> hi, dispatches |-> FALSE]
  ELSE LET begin == IF hi - historyMaxLength > 0 THEN hi - historyMaxLength ELSE 0
           kept == SubSeq(h, begin + 1, hi + 1)
       IN [history |-> Append(kept, element), historyIndex |-> Len(kept),
           dispatches |-> TRUE]

\* README:701-715: the event dispatchChangeHistoryEvent builds from
\* this.history and this.historyIndex.
dispatchChangeHistoryEvent(h, hi) ==
  [n |-> 1 - kanvasHistoryChange.n, detail |-> [history |-> h, historyIndex |-> hi]]

\* !event.detail[name]: a property the detail does not have reads undefined.
notDetail(event, name) ==
  ~(name \in DOMAIN event.detail /\ event.detail[name])

\* part_001:113-116: the dialog's listener, run by dispatchEvent (README:714).
handleCanvasHistoryChange(event) ==
  [undoButton |-> [disabled |-> notDetail(event, "isUndoable")],
   redoButton |-> [disabled |-> notDetail(event, "isRedoable")]]

\* The event is dispatched and the dialog's listener has run.
dispatched(h, hi) ==
  \E event \in {dispatchChangeHistoryEvent(h, hi)} :
    /\ kanvasHistoryChange' = event
    /\ undoButton' = handleCanvasHistoryChange(event).undoButton
    /\ redoButton' = handleCanvasHistoryChange(event).redoButton

\* README:528-545: the filter's own copy of the canvas, one pixel per cell.
shrink(element, zoom) == drawImage(element, element.width \div zoom, element.height \div zoom)

\* Number of load calls, of pointer strokes and of undo/redo calls made.
MaxLoads == 2
MaxStrokes == 1
MaxRestores == 2

\* Images handed to load: opaque pixels, 3*2 and 2*2.
wideImage ==
  [width |-> 3, height |-> 2,
   data |-> << <<9, 9, 9, 255>>, <<255, 255, 255, 255>>, <<200, 60, 30, 255>>,
               <<240, 240, 240, 255>>, <<227, 114, 114, 255>>, <<100, 150, 200, 255>> >>]

squareImage ==
  [width |-> 2, height |-> 2,
   data |-> << <<227, 114, 114, 255>>, <<0, 0, 0, 255>>,
               <<0, 0, 0, 255>>, <<227, 114, 114, 255>> >>]

SourceImages == {wideImage, squareImage}

\* The load calls the host makes (README:403-411).
LoadRequests ==
  [src : SourceImages, applysMibaeFilter : BOOLEAN, pushesImageToHistory : BOOLEAN]

\* README:437-440: the room the dialog leaves the canvas, in half CSS pixels:
\* twice clientHeight - 112 and twice min(clientWidth, 1280) - 64, at the
\* scale of the images of SourceImages.  The dialog keeps its size.
available == [height2 |-> 4, width2 |-> 3]

\* README:437-447: actualZoom = Math.ceil(Math.min(heightZoom, widthZoom) * 2)
zoomOf(imageWidth, imageHeight) ==
  IF available.height2 * imageWidth <= available.width2 * imageHeight
  THEN -((-available.height2) \div imageHeight)
  ELSE -((-available.width2) \div imageWidth)

\* README:506-519: canvas positions of pointer events.
Positions == { <<0, 0>>, <<1, 1>> }

\* The other runs that have not finished see the canvas, the zoom or the
\* caches written between two of their rows.
interrupt(rs, acting) ==
  [r \in DOMAIN rs |->
     IF r # acting /\ rs[r].status # "done" THEN [rs[r] EXCEPT !.interrupted = TRUE] ELSE rs[r]]

\* README:430-459: the canvas and the zoom load sets up for a decoded image.
loaded(src) ==
  LET imageHeight == scaledSize(src.height, src.width)
      imageWidth == scaledSize(src.width, src.height)
      zoom == zoomOf(imageWidth, imageHeight)
  IN [canvas |-> drawImage(src, imageWidth * zoom, imageHeight * zoom), actualZoom |-> zoom]

\* README:547-698 without any other code running during the awaits: the
\* cells from the k-th on, row by row; st holds the filter's buffer, the
\* canvas and the two caches.
RECURSIVE mibaeCells(_, _, _)
mibaeCells(st, zoom, k) ==
  Only({ IF at >= now.shrinked.width * now.shrinked.height THEN now
         ELSE mibaeCells(mibaeCell(now.shrinked, now.canvas, zoom, now.cache, now.diffCache,
                                   at % now.shrinked.width, at \div now.shrinked.width),
                         zoom, at + 1)
         : now \in {st}, at \in {k} })

\* README:521-699: applyMibaeFilter run in one piece on a canvas, with the
\* caches as given; the canvas it leaves.
applyMibaeFilter(element, zoom, cache, diffCache) ==
  mibaeCells([shrinked |-> shrink(element, zoom), canvas |-> element,
              cache |-> cache, diffCache |-> diffCache, error |-> <<0, 0, 0>>],
             zoom, 0).canvas

\* README:403-411 and 420-428: load is called; its image is being decoded.
load ==
  \E request \in LoadRequests :
    /\ current = 0
    /\ used.load < MaxLoads
    /\ pending' = Append(pending, request)
    /\ used' = [used EXCEPT !.load = @ + 1]
    /\ UNCHANGED <<patternImageDataCache, searchVars, canvas, actualZoom, colorDiffCache,
                   runs, current, history, historyIndex, transactionMode, prevPosition>>
    /\ UNCHANGED <<pointerVars, dialogVars>>

\* README:430-468: the image of a pending load is decoded; load goes on to
\* its end or, with applysMibaeFilter, into the first row of the filter
\* (521-547).
imageLoaded ==
  /\ current = 0
  /\ \E i \in DOMAIN pending : \E p \in {pending[i]} : \E set \in {loaded(pending[i].src)} :
     \E pushed \in {pushImageToHistory(set.canvas, history, historyIndex)} :
       /\ pending' = SubSeq(pending, 1, i - 1) \o SubSeq(pending, i + 1, Len(pending))
       /\ actualZoom' = set.actualZoom
       /\ canvas' = set.canvas
       /\ IF p.applysMibaeFilter
          THEN /\ runs' = Append(interrupt(runs, 0),
                            [src |-> p.src, zoom |-> set.actualZoom,
                             shrinked |-> shrink(set.canvas, set.actualZoom),
                             x |-> 0, y |-> 0, status |-> "row",
                             pushesImageToHistory |-> p.pushesImageToHistory,
                             interrupted |-> FALSE,
                             error |-> <<0, 0, 0>>, applied |-> <<0, 0, 0>>,
                             output |-> blankCanvas, cell |-> undefined])
               /\ current' = Len(runs) + 1
               /\ UNCHANGED <<history, historyIndex, dialogVars>>
          ELSE /\ runs' = interrupt(runs, 0)
               /\ current' = 0
               /\ history' = IF p.pushesImageToHistory THEN pushed.history ELSE history
               /\ historyIndex' = IF p.pushesImageToHistory THEN pushed.historyIndex
                                                             ELSE historyIndex
               /\ IF p.pushesImageToHistory /\ pushed.dispatches
                  THEN dispatched(pushed.history, pushed.historyIndex)
                  ELSE UNCHANGED dialogVars
  /\ UNCHANGED <<patternImageDataCache, searchVars, colorDiffCache, transactionMode,
                 prevPosition, used>>
  /\ UNCHANGED pointerVars

\* README:548-695: the body of the loops for the next cell of the row.
filterCell ==
  /\ current # 0
  /\ runs[current].x < runs[current].shrinked.width
  /\ \E m \in {mibaeCell(runs[current].shrinked, canvas, actualZoom,
                         patternImageDataCache, colorDiffCache,
                         runs[current].x, runs[current].y)} :
        /\ runs' = [interrupt(runs, current) EXCEPT ![current] =
                      [@ EXCEPT !.shrinked = m.shrinked, !.x = @ + 1, !.error = m.error,
                                !.cell = m.cell,
                                !.applied =
                                  [c \in 1 .. 3 |->
                                     SumOver(DOMAIN m.shrinked.data,
                                       [i \in DOMAIN m.shrinked.data |->
                                          m.shrinked.data[i][c]
                                            - runs[current].shrinked.data[i][c]])]]]
        /\ canvas' = m.canvas
        /\ patternImageDataCache' = m.cache
        /\ colorDiffCache' = m.diffCache
  /\ UNCHANGED <<searchVars, actualZoom, current, pending, history, historyIndex,
                 transactionMode, prevPosition, used>>
  /\ UNCHANGED <<pointerVars, dialogVars>>

\* Mutant: the await stands inside the loop over the cells of a row.
filterYieldMidRow ==
  /\ current # 0
  /\ runs[current].x >= 1
  /\ runs' = [runs EXCEPT ![current].status = "suspended"]
  /\ current' = 0
  /\ UNCHANGED <<patternImageDataCache, searchVars, canvas, actualZoom, colorDiffCache,
                 pending, history, historyIndex, transactionMode, prevPosition, used>>
  /\ UNCHANGED <<pointerVars, dialogVars>>

\* README:697: the await at the end of a row.
filterYield ==
  /\ current # 0
  /\ runs[current].x = runs[current].shrinked.width
  /\ runs' = [runs EXCEPT ![current].status = "suspended"]
  /\ current' = 0
  /\ UNCHANGED <<patternImageDataCache, searchVars, canvas, actualZoom, colorDiffCache,
                 pending, history, historyIndex, transactionMode, prevPosition, used>>
  /\ UNCHANGED <<pointerVars, dialogVars>>

\* Mutant: the push of README:465-467 stands inside the loop over the rows.
filterResumePushesEachRow ==
  /\ current = 0
  /\ \E r \in DOMAIN runs : \E pushed \in {pushImageToHistory(canvas, history, historyIndex)} :
       /\ runs[r].status = "suspended"
       /\ IF runs[r].y + 1 < runs[r].shrinked.height
          THEN /\ runs' = [runs EXCEPT ![r].y = @ + 1, ![r].x = 0, ![r].status = "row"]
               /\ current' = r
          ELSE /\ runs' = [runs EXCEPT ![r].y = @ + 1, ![r].x = 0, ![r].status = "done",
                                       ![r].output = canvas]
               /\ current' = 0
       /\ history' = IF runs[r].pushesImageToHistory THEN pushed.history ELSE history
       /\ historyIndex' = IF runs[r].pushesImageToHistory THEN pushed.historyIndex
                                                          ELSE historyIndex
       /\ IF runs[r].pushesImageToHistory /\ pushed.dispatches
          THEN dispatched(pushed.history, pushed.historyIndex)
          ELSE UNCHANGED dialogVars
  /\ UNCHANGED <<patternImageDataCache, searchVars, canvas, actualZoom, colorDiffCache,
                 pending, transactionMode, prevPosition, used>>
  /\ UNCHANGED pointerVars

\* README:547 and 465-467: the timer of a suspended run fires; the run goes
\* into its next row or, after the last one, back into load.
filterResume ==
  /\ current = 0
  /\ \E r \in DOMAIN runs : \E pushed \in {pushImageToHistory(canvas, history, historyIndex)} :
       /\ runs[r].status = "suspended"
       /\ IF runs[r].y + 1 < runs[r].shrinked.height
          THEN /\ runs' = [runs EXCEPT ![r].y = @ + 1, ![r].x = 0, ![r].status = "row"]
               /\ current' = r
               /\ UNCHANGED <<history, historyIndex, dialogVars>>
          ELSE /\ runs' = [runs EXCEPT ![r].y = @ + 1, ![r].x = 0, ![r].status = "done",
                                       ![r].output = canvas]
               /\ current' = 0
               /\ history' = IF runs[r].pushesImageToHistory THEN pushed.history ELSE history
               /\ historyIndex' = IF runs[r].pushesImageToHistory THEN pushed.historyIndex
                                                                  ELSE historyIndex
               /\ IF runs[r].pushesImageToHistory /\ pushed.dispatches
                  THEN dispatched(pushed.history, pushed.historyIndex)
                  ELSE UNCHANGED dialogVars
  /\ UNCHANGED <<patternImageDataCache, searchVars, canvas, actualZoom, colorDiffCache,
                 pending, transactionMode, prevPosition, used>>
  /\ UNCHANGED pointerVars

\* README:820-851, this.mode = "shape" (README:290).
handlePointerDown ==
  \E position \in Positions :
    /\ current = 0
    /\ transactionMode = noTransaction
    /\ used.stroke < MaxStrokes
    /\ transactionMode' = "shape"
    /\ canvas' = drawPoint(canvas, actualZoom, position)
    /\ prevPosition' = position
    /\ runs' = interrupt(runs, 0)
    /\ used' = [used EXCEPT !.stroke = @ + 1]
    /\ UNCHANGED <<patternImageDataCache, searchVars, actualZoom, colorDiffCache, current,
                   pending, history, historyIndex>>
    /\ UNCHANGED <<pointerVars, dialogVars>>

\* README:887-936
handlePointerUp ==
  \E position \in Positions :
    /\ current = 0
    /\ transactionMode = "shape"
    /\ \E drawn \in {drawLine(canvas, actualZoom, prevPosition, position)} :
        \E pushed \in {pushImageToHistory(drawn, history, historyIndex)} :
          /\ canvas' = drawn
          /\ history' = pushed.history
          /\ historyIndex' = pushed.historyIndex
          /\ IF pushed.dispatches
             THEN dispatched(pushed.history, pushed.historyIndex)
             ELSE UNCHANGED dialogVars
    /\ transactionMode' = noTransaction
    /\ runs' = interrupt(runs, 0)
    /\ UNCHANGED <<patternImageDataCache, searchVars, actualZoom, colorDiffCache, current,
                   pending, prevPosition, used>>
    /\ UNCHANGED pointerVars

\* README:810-816
putImageFromHistory(hi) ==
  Append(pending, [src |-> history[hi + 1], applysMibaeFilter |-> FALSE,
                   pushesImageToHistory |-> FALSE])

\* Mutant: undo returns early only when historyIndex < 0.
undoBelowFirst ==
  /\ current = 0
  /\ used.restore < MaxRestores
  /\ ~(historyIndex < 0)
  /\ historyIndex' = historyIndex - 1
  /\ dispatched(history, historyIndex - 1)
  /\ pending' = IF historyIndex >= 1 THEN putImageFromHistory(historyIndex - 1) ELSE pending
  /\ used' = [used EXCEPT !.restore = @ + 1]
  /\ UNCHANGED <<patternImageDataCache, searchVars, canvas, actualZoom, colorDiffCache,
                 runs, current, history, transactionMode, prevPosition>>
  /\ UNCHANGED pointerVars

\* README:496-504
undo ==
  /\ current = 0
  /\ used.restore < MaxRestores
  /\ ~(historyIndex < 1)
  /\ historyIndex' = historyIndex - 1
  /\ dispatched(history, historyIndex - 1)
  /\ pending' = putImageFromHistory(historyIndex - 1)
  /\ used' = [used EXCEPT !.restore = @ + 1]
  /\ UNCHANGED <<patternImageDataCache, searchVars, canvas, actualZoom, colorDiffCache,
                 runs, current, history, transactionMode, prevPosition>>
  /\ UNCHANGED pointerVars

\* README:470-478
redo ==
  /\ current = 0
  /\ used.restore < MaxRestores
  /\ ~(historyIndex >= Len(history) - 1)
  /\ historyIndex' = historyIndex + 1
  /\ dispatched(history, historyIndex + 1)
  /\ pending' = putImageFromHistory(historyIndex + 1)
  /\ used' = [used EXCEPT !.restore = @ + 1]
  /\ UNCHANGED <<patternImageDataCache, searchVars, canvas, actualZoom, colorDiffCache,
                 runs, current, history, transactionMode, prevPosition>>
  /\ UNCHANGED pointerVars

Init ==
  /\ patternImageDataCache = emptyCache
  /\ patternCanvas = createCanvas(tonePeriod, tonePeriod)
  /\ data = <<>>
  /\ patterns = <<>>
  /\ bestPattern = undefined
  /\ bestPatternDistance = Infinity
  /\ selection = undefined
  /\ normalizedData = <<>>
  /\ tile = <<>>
  /\ op = "none"
  /\ calls = 0
  /\ searches = <<>>
  /\ InitWidget

Next ==
  \/ load
  \/ imageLoaded
  \/ filterCell
  \/ filterYield
  \/ filterResume
  \/ handlePointerDown
  \/ handlePointerUp
  \/ undo
  \/ redo

Spec == Init /\ [][Next]_vars

(***************************************************************************)
(* SpecScan: the scan order of the filter.  The widget is in the state     *)
(* load leaves when it enters applyMibaeFilter (README:461-462) for one    *)
(* image, and the filter runs as in Spec (run 1).  Beside it run 2 is the  *)
(* same filter with its rows taken bottom to top and everything else as    *)
(* it is, on a copy of the canvas of its own (its field output).           *)
(***************************************************************************)
\* A black image with one white pixel in its last row.
cornerImage ==
  [width |-> 3, height |-> 2,
   data |-> << <<0, 0, 0, 255>>, <<0, 0, 0, 255>>, <<0, 0, 0, 255>>,
               <<0, 0, 0, 255>>, <<0, 0, 0, 255>>, <<255, 255, 255, 255>> >>]

ScanImages == {cornerImage, wideImage, squareImage}

InitScan ==
  /\ patternImageDataCache = emptyCache
  /\ patternCanvas = createCanvas(tonePeriod, tonePeriod)
  /\ data = <<>>
  /\ patterns = <<>>
  /\ bestPattern = undefined
  /\ bestPatternDistance = Infinity
  /\ selection = undefined
  /\ normalizedData = <<>>
  /\ tile = <<>>
  /\ op = "none"
  /\ calls = 0
  /\ searches = <<>>
  /\ \E src \in ScanImages : \E set \in {loaded(src)} :
       \E shrinked \in {shrink(set.canvas, set.actualZoom)} :
        /\ canvas = set.canvas
        /\ actualZoom = set.actualZoom
        /\ runs = << [src |-> src, zoom |-> set.actualZoom, shrinked |-> shrinked,
                      x |-> 0, y |-> 0, status |-> "row", pushesImageToHistory |-> FALSE,
                      interrupted |-> FALSE, error |-> <<0, 0, 0>>, applied |-> <<0, 0, 0>>,
                      output |-> blankCanvas, cell |-> undefined],
                     [src |-> src, zoom |-> set.actualZoom, shrinked |-> shrinked,
                      x |-> 0, y |-> shrinked.height - 1, status |-> "reversed",
                      pushesImageToHistory |-> FALSE,
                      interrupted |-> FALSE, error |-> <<0, 0, 0>>, applied |-> <<0, 0, 0>>,
                      output |-> set.canvas, cell |-> undefined] >>
  /\ current = 1
  /\ colorDiffCache = <<>>
  /\ pending = <<>>
  /\ history = <<>>
  /\ historyIndex = -1
  /\ transactionMode = noTransaction
  /\ prevPosition = <<0, 0>>
  /\ used = [load |-> 1, stroke |-> 0, restore |-> 0]
  /\ mode = "shape"
  /\ textPreviewRect = [textContent |-> "", position |-> <<0, 0>>]
  /\ pointerEvent = [type |-> "none", n |-> 0, returns |-> FALSE]
  /\ kanvasHistoryChange = [n |-> 0, detail |-> undefined]
  /\ undoButton = [disabled |-> TRUE]
  /\ redoButton = [disabled |-> TRUE]

\* README:548-695 for the next cell of run 2, whose y runs from the last row
\* to the first.
reversedCell ==
  /\ runs[2].status = "reversed"
  /\ \E m \in {mibaeCell(runs[2].shrinked, runs[2].output, runs[2].zoom,
                         patternImageDataCache, colorDiffCache, runs[2].x, runs[2].y)} :
        /\ runs' = [runs EXCEPT ![2] =
                      [@ EXCEPT !.shrinked = m.shrinked, !.output = m.canvas,
                                !.error = m.error, !.cell = m.cell,
                                !.x = IF @ + 1 < runs[2].shrinked.width THEN @ + 1 ELSE 0,
                                !.y = IF runs[2].x + 1 < runs[2].shrinked.width THEN @ ELSE @ - 1,
                                !.status = IF runs[2].x + 1 < runs[2].shrinked.width
                                              \/ runs[2].y > 0
                                           THEN "reversed" ELSE "done"]]
        /\ patternImageDataCache' = m.cache
        /\ colorDiffCache' = m.diffCache
  /\ UNCHANGED <<searchVars, canvas, actualZoom, current, pending, history, historyIndex,
                 transactionMode, prevPosition, used>>
  /\ UNCHANGED <<pointerVars, dialogVars>>

NextScan == filterCell \/ filterYield \/ filterResume \/ reversedCell

SpecScan == InitScan /\ [][NextScan]_vars

(***************************************************************************)
(* Properties.                                                             *)
(***************************************************************************)
\* The tile a pattern key stands for: foreground where the tone bitmap, shifted
\* by the offsets, is set, background elsewhere, alpha 255.
ExpectedTile(pattern) ==
  [i \in 1 .. tonePeriod * tonePeriod |->
     LET x == (i - 1) % tonePeriod
         y == (i - 1) \div tonePeriod
     IN IF tones[pattern.toneType][((y + pattern.offsetY) % tonePeriod) + 1]
                                  [((x + pattern.offsetX) % tonePeriod) + 1] = 1
        THEN ColorRGB(pattern.foregroundColor) \o <<255>>
        ELSE ColorRGB(pattern.backgroundColor) \o <<255>>]

OpaquePositions(window) == {i \in DOMAIN window : window[i][4] = 255}

\* The total distance of a window to a pattern's tile over the opaque positions.
TotalDistance(window, pattern) ==
  SumOver(OpaquePositions(window),
    [i \in OpaquePositions(window) |-> pixelDistance(window[i], ExpectedTile(pattern)[i])])

\* C1: getBestPattern returns the candidate of lowest index among those whose
\* total distance to the window is minimal; an equal later candidate never
\* replaces an earlier one.
C1_FirstMinimalCandidate ==
  op = "search" =>
    \E j \in DOMAIN patterns :
      /\ bestPattern = patterns[j]
      /\ \A k \in DOMAIN patterns :
           /\ TotalDistance(data, patterns[k]) >= TotalDistance(data, patterns[j])
           /\ k < j => TotalDistance(data, patterns[k]) > TotalDistance(data, patterns[j])

\* C1 witness: two different candidates tie at a positive distance and the
\* earlier one was returned.
C1_Witness ==
  /\ op = "search"
  /\ Len(patterns) = 2
  /\ patterns[1] # patterns[2]
  /\ TotalDistance(data, patterns[1]) = TotalDistance(data, patterns[2])
  /\ TotalDistance(data, patterns[1]) > 0
  /\ bestPattern = patterns[1]

\* Two windows with the same alpha everywhere and the same RGB wherever alpha is 255.
SameOpaqueContent(w1, w2) ==
  \A i \in DOMAIN w1 :
    /\ w1[i][4] = w2[i][4]
    /\ w1[i][4] = 255 => w1[i] = w2[i]

\* C2: the RGB values of pixels whose alpha is not 255 do not influence the
\* result: every window agreeing with the searched one in alpha and in the
\* opaque pixels gets the same candidate from the same list.
C2_NonOpaqueIgnored ==
  op = "search" =>
    \A w \in Windows :
      SameOpaqueContent(w, data) =>
        getBestPattern(emptyCache, createCanvas(tonePeriod, tonePeriod), w, patterns).bestPattern
          = bestPattern

\* C2 witness: the searched window has an opaque pixel and a pixel that is not
\* opaque, another window differs from it in that pixel's RGB only, and the
\* second candidate won.
C2_Witness ==
  /\ op = "search"
  /\ Len(patterns) = 2
  /\ bestPattern = patterns[2]
  /\ bestPattern # patterns[1]
  /\ \E i \in DOMAIN data : data[i][4] = 255
  /\ \E w \in Windows : w # data /\ SameOpaqueContent(w, data)

\* C3: a window without any pixel of alpha 255 has distance 0 to every
\* candidate and gets the first candidate of the list.
C3_NoOpaquePixelFirstCandidate ==
  (op = "search" /\ OpaquePositions(data) = {}) =>
    /\ bestPattern = patterns[1]
    /\ bestPatternDistance = 0
    /\ \A j \in DOMAIN patterns :
         sumDistance(emptyCache, createCanvas(tonePeriod, tonePeriod), data, patterns[j]).distance = 0

\* C3 witness: no opaque pixel, some non-zero RGB values, two different candidates.
C3_Witness ==
  /\ op = "search"
  /\ OpaquePositions(data) = {}
  /\ \E i \in DOMAIN data : data[i][1] # 0
  /\ Len(patterns) = 2
  /\ patterns[1] # patterns[2]
  /\ bestPattern = patterns[1]

\* C5: the tile returned for a key, and every tile the cache holds, shows the
\* foreground colour where the tone bitmap shifted by the offsets is set and the
\* background colour elsewhere, alpha 255, whatever was rendered before.
C5_TileIsFunctionOfKey ==
  /\ op = "render" => tile = ExpectedTile(patterns[1])
  /\ \A k \in DOMAIN patternImageDataCache : patternImageDataCache[k] = ExpectedTile(k)

\* C5 witness: a key with non-zero offsets was rendered after a different key
\* whose tile differs from its own.
C5_Witness ==
  /\ op = "render"
  /\ calls = 2
  /\ patterns[1].offsetX # 0
  /\ \E k \in DOMAIN patternImageDataCache :
       /\ k # patterns[1]
       /\ patternImageDataCache[k] # tile
  /\ \E i, j \in DOMAIN tile : tile[i] # tile[j]

\* The opaque pixels of the window all have the same lightness.
FlatWindow(window) ==
  /\ OpaquePositions(window) # {}
  /\ SetMax(lightnesses(window)) = SetMin(lightnesses(window))

\* C9: for a window of flat lightness the normalization yields bytes (no NaN,
\* no infinity), the tone search returns one of its candidates, and the
\* selected tone and colours are those a run with an empty cache selects.
C9_FlatWindowDefined ==
  (op = "quantize" /\ FlatWindow(data)) =>
    /\ \A i \in DOMAIN normalizedData : \A c \in 1 .. 4 : normalizedData[i][c] \in 0 .. 255
    /\ \E j \in DOMAIN patterns : bestPattern = patterns[j]
    /\ selection.toneType = bestPattern.toneType
    /\ selection.backgroundColor \in Range(colors)
    /\ selection.foregroundColor \in Range(colors)
    /\ \E q \in {quantize(emptyCache, createCanvas(tonePeriod, tonePeriod), data,
                          patterns[1].offsetY, patterns[1].offsetX)} :
         selection = [toneType |-> q.toneType, backgroundColor |-> q.backgroundColor,
                      foregroundColor |-> q.foregroundColor]

\* C9 witness: a flat window of several opaque pixels whose division by zero
\* gave Infinity (stored as 255), quantized after the cache was warmed.
C9_Witness ==
  /\ op = "quantize"
  /\ calls = 2
  /\ FlatWindow(data)
  /\ Cardinality(OpaquePositions(data)) > 1
  /\ \E i \in OpaquePositions(data) : normalizedData[i][1] = 255

(***************************************************************************)
(* Properties of the README snapshot, checked in Spec.                     *)
(***************************************************************************)
\* C4: the pattern cache is write-once per key.  A step of the widget, rows
\* of interleaved filter runs included, leaves every stored tile in place and
\* as it was, and a call of getPatternImageData with a stored key returns the
\* stored tile and changes nothing.
C4_PatternCacheWriteOnce ==
  /\ [](\A k \in DOMAIN patternImageDataCache :
          /\ getPatternImageDataAsync(patternImageDataCache, k).imageData
               = patternImageDataCache[k]
          /\ getPatternImageDataAsync(patternImageDataCache, k).cache
               = patternImageDataCache)
  /\ [][\A k \in DOMAIN patternImageDataCache :
          /\ k \in DOMAIN patternImageDataCache'
          /\ patternImageDataCache'[k] = patternImageDataCache[k]]_vars

\* Two filter runs are between rows at once, both past their first row, and
\* the cache holds tiles.
C4_Witness ==
  /\ \E r1, r2 \in DOMAIN runs :
       /\ r1 # r2
       /\ runs[r1].status = "suspended"
       /\ runs[r2].status = "suspended"
       /\ runs[r1].interrupted
       /\ runs[r2].interrupted
  /\ DOMAIN patternImageDataCache # {}

\* What an uninterrupted filter run started by load leaves on the canvas for
\* each source image, both caches empty at its start.
ColdOutput ==
  [src \in SourceImages |->
     applyMibaeFilter(loaded(src).canvas, loaded(src).actualZoom, <<>>, <<>>)]

\* C6: the filter is deterministic.  A run that nothing interrupted leaves the
\* canvas a cold-cache run on the same image leaves, whatever the two caches
\* held when it started.
C6_FilterDeterministic ==
  \A r \in DOMAIN runs :
    (runs[r].status = "done" /\ ~runs[r].interrupted)
      => runs[r].output = ColdOutput[runs[r].src]

\* An uninterrupted run has finished that started on caches a finished run on
\* the other image had filled.
C6_Witness ==
  \E r \in DOMAIN runs :
    /\ r > 1
    /\ runs[r].status = "done"
    /\ ~runs[r].interrupted
    /\ runs[r - 1].status = "done"
    /\ runs[r - 1].src # runs[r].src
    /\ ~runs[r - 1].interrupted

\* Number of cells a run has processed: its position in row-major order.
processed(run) == run.y * run.shrinked.width + run.x

\* C7: cells are processed in row-major order and diffusion only writes
\* pixels of cells not yet processed.  In every step a run's position stays
\* or advances by one cell, and the pixels of the filter's buffer at the
\* cells processed so far, the cell of the step included, stay as they were.
C7_RowMajorDiffusion ==
  [][\A r \in DOMAIN runs :
       /\ processed(runs'[r]) \in {processed(runs[r]), processed(runs[r]) + 1}
       /\ \A i \in 1 .. processed(runs'[r]) :
            i <= Len(runs[r].shrinked.data)
              => runs'[r].shrinked.data[i] = runs[r].shrinked.data[i]]_vars

\* A run has processed cells of its second row and diffusion has changed its
\* buffer.
C7_Witness ==
  \E r \in DOMAIN runs :
    /\ runs[r].y = 1
    /\ runs[r].x >= 2
    /\ runs[r].shrinked # shrink(loaded(runs[r].src).canvas, runs[r].zoom)

\* C8: for every cell and channel, the total change diffusion applied to the
\* filter's buffer does not exceed the cell's quantization error in magnitude.
C8_DiffusionBounded ==
  \A r \in DOMAIN runs : \A c \in 1 .. 3 :
    Abs(runs[r].applied[c]) <= Abs(runs[r].error[c])

\* The last cell of a run raised its neighbours on a channel, and the last
\* cell of a run lowered them on a channel.
C8_Witness ==
  /\ \E r \in DOMAIN runs : \E c \in 1 .. 3 :
       runs[r].error[c] > 0 /\ runs[r].applied[c] > 0
  /\ \E r \in DOMAIN runs : \E c \in 1 .. 3 :
       runs[r].error[c] < 0 /\ runs[r].applied[c] < 0

\* C10: the suspension between rows does not change the filter's output.
\* Whatever ran between its rows, a finished run leaves on the canvas what an
\* uninterrupted run on the same image leaves.
C10_SuspensionKeepsOutput ==
  \A r \in DOMAIN runs :
    runs[r].status = "done" => runs[r].output = ColdOutput[runs[r].src]

\* The filter runs that have started and not finished.
unfinished(rs) == {r \in DOMAIN rs : rs[r].status # "done"}

\* C11: the buffers of a filter run are owned by that run alone.  The source
\* buffer is the run's own shrinked canvas; the output buffer is the canvas
\* the run stamps.  When a load starts a second run while a first one is
\* between rows, a step writes the output buffer of an unfinished run only if
\* it is a step of that run.
C11_BuffersExclusive ==
  [][Cardinality(unfinished(runs')) >= 2 =>
       \A r \in unfinished(runs) : canvas' # canvas => current = r]_vars

C13_ScanOrderMatters ==
  (/\ runs # <<>>
   /\ \A r \in DOMAIN runs : runs[r].status = "done"
   /\ runs[1].src = cornerImage)
    => runs[1].output # runs[2].output

\* Both scans of cornerImage have finished.
C13_Witness ==
  /\ Len(runs) = 2
  /\ runs[1].status = "done"
  /\ runs[2].status = "done"
  /\ runs[2].y = -1
  /\ runs[1].src = cornerImage

\* The index, in a window or a tile, of the cell the window is centred on.
centre == (tonePeriod \div 2) * tonePeriod + (tonePeriod \div 2) + 1

\* C14: the phase of the tiles searched agrees with the phase used for
\* stamping.  For the cell a run processed last, offsetX is congruent to the
\* window origin x - P/2 modulo P and offsetY to y - P/2, and for every tone
\* the tile built with these offsets shows foreground at the window position
\* of the cell exactly when tone.bitmap[y % P][x % P] is set.
C14_SearchPhaseIsStampPhase ==
  \A r \in DOMAIN runs :
    runs[r].cell # undefined =>
      /\ runs[r].cell.offsetX = (runs[r].cell.x - tonePeriod \div 2) % tonePeriod
      /\ runs[r].cell.offsetY = (runs[r].cell.y - tonePeriod \div 2) % tonePeriod
      /\ \A t \in Range(toneTypes) :
           (newPatternImageData(Pattern(t, palettes.light[1], palettes.dark[1],
                                        runs[r].cell.offsetY, runs[r].cell.offsetX))[centre]
              = ColorRGB(palettes.dark[1]) \o <<255>>)
             <=> (tones[t][(runs[r].cell.y % tonePeriod) + 1]
                          [(runs[r].cell.x % tonePeriod) + 1] # 0)

\* The colour stamped for the cell a run processed last.
stampedColor(cell) ==
  IF tones[cell.toneType][(cell.y % tonePeriod) + 1][(cell.x % tonePeriod) + 1] # 0
  THEN cell.foregroundColor ELSE cell.backgroundColor

\* C15: the error diffused from a cell is, per channel, the colour the cell
\* has in the source buffer when the step begins (the window is normalized in
\* a copy, the buffer itself is not, and nothing is quantized yet) minus the
\* rendered colour, and the rendered colour is what the canvas holds after
\* the step at the position stamped for that cell: the colour stamped.
C15_ErrorIsOriginalMinusRendered ==
  [][\A r \in DOMAIN runs :
       (current = r /\ processed(runs'[r]) = processed(runs[r]) + 1) =>
         /\ runs'[r].cell.x = runs[r].x
         /\ runs'[r].cell.y = runs[r].y
         /\ \A c \in 1 .. 3 :
              runs'[r].error[c] =
                runs[r].shrinked.data[runs[r].y * runs[r].shrinked.width + runs[r].x + 1][c]
                  - getImageData(canvas', runs[r].x * actualZoom, runs[r].y * actualZoom, 1, 1)[1][c]
         /\ (runs[r].x * actualZoom < canvas'.width /\ runs[r].y * actualZoom < canvas'.height)
              => getImageData(canvas', runs[r].x * actualZoom, runs[r].y * actualZoom, 1, 1)[1]
                   = ColorRGB(stampedColor(runs'[r].cell)) \o <<255>>]_vars

\* A cell of a zoomed canvas, not the first of its row, was processed with an
\* error that is not zero, on a source pixel earlier cells had diffused into.
C15_Witness ==
  \E r \in DOMAIN runs :
    /\ runs[r].cell # undefined
    /\ runs[r].cell.zoom > 1
    /\ runs[r].cell.x > 0
    /\ runs[r].error # <<0, 0, 0>>
    /\ runs[r].cell.original
         # shrink(loaded(runs[r].src).canvas, runs[r].zoom).data
             [runs[r].cell.y * runs[r].shrinked.width + runs[r].cell.x + 1]

\* The indexes of the pixels of a canvas inside the zoom-by-zoom block of
\* cell (x, y).
block(element, x, y, zoom) ==
  {i \in DOMAIN element.data :
     /\ (i - 1) % element.width \in x * zoom .. x * zoom + zoom - 1
     /\ (i - 1) \div element.width \in y * zoom .. y * zoom + zoom - 1}

\* The pixels the palette colours paint.
palettePixels == {ColorRGB(colors[i]) \o <<255>> : i \in DOMAIN colors}

\* C16: processing cell (x, y) writes exactly the zoom-by-zoom block of the
\* canvas at (x * zoom, y * zoom): every pixel of the block gets the colour
\* chosen by tone.bitmap[y % P][x % P], every other pixel stays as it was,
\* and the one position of the canvas the step reads lies in that block; a
\* step of a run that processes no cell leaves the canvas alone.  After an
\* uninterrupted run every pixel of the canvas holds a palette colour.
C16_StampsExactlyTheBlock ==
  /\ [][\A r \in DOMAIN runs :
          /\ (current = r /\ processed(runs'[r]) = processed(runs[r]) + 1) =>
                /\ canvas'.width = canvas.width
                /\ canvas'.height = canvas.height
                /\ \A i \in DOMAIN canvas.data :
                     canvas'.data[i] =
                       IF i \in block(canvas, runs[r].x, runs[r].y, actualZoom)
                       THEN ColorRGB(stampedColor(runs'[r].cell)) \o <<255>>
                       ELSE canvas.data[i]
                /\ runs'[r].cell.sampled[1] \in
                     runs[r].x * actualZoom .. runs[r].x * actualZoom + actualZoom - 1
                /\ runs'[r].cell.sampled[2] \in
                     runs[r].y * actualZoom .. runs[r].y * actualZoom + actualZoom - 1
          /\ (current = r /\ processed(runs'[r]) = processed(runs[r])) => canvas' = canvas]_vars
  /\ [](\A r \in DOMAIN runs :
          (runs[r].status = "done" /\ ~runs[r].interrupted) =>
            \A i \in DOMAIN runs[r].output.data : runs[r].output.data[i] \in palettePixels)

\* Two uninterrupted runs have finished, one on a canvas zoomed by 2 and one
\* on an image with pixels that have no palette colour.
C16_Witness ==
  \E r1, r2 \in DOMAIN runs :
    /\ runs[r1].status = "done" /\ ~runs[r1].interrupted
    /\ runs[r2].status = "done" /\ ~runs[r2].interrupted
    /\ runs[r1].zoom = 2
    /\ runs[r1].output # loaded(runs[r1].src).canvas
    /\ \E i \in DOMAIN runs[r2].src.data : runs[r2].src.data[i] \notin palettePixels

\* C17: for a window whose opaque pixels have max lightness > min lightness,
\* every opaque pixel's lightness is rescaled by (value - min) * 255 /
\* (max - min) and stored in its three colour channels: the pixels of
\* minimum lightness become 0, those of maximum lightness 255, the order of
\* lightness is kept, and pixels that are not opaque stay as they are.
C17_NormalizationRescales ==
  (op = "quantize" /\ OpaquePositions(data) # {} /\ ~FlatWindow(data)) =>
    \E min \in {SetMin(lightnesses(data))} : \E max \in {SetMax(lightnesses(data))} :
      /\ \A i \in DOMAIN data : data[i][4] # 255 => normalizedData[i] = data[i]
      /\ \A i \in OpaquePositions(data) :
           /\ normalizedData[i][4] = 255
           /\ \A c \in 1 .. 3 :
                normalizedData[i][c]
                  = ToUint8Clamp(Divide((average1000(data[i]) - min) * 255, max - min))
           /\ average1000(data[i]) = min => normalizedData[i][1] = 0
           /\ average1000(data[i]) = max => normalizedData[i][1] = 255
      /\ \A i, j \in OpaquePositions(data) :
           average1000(data[i]) <= average1000(data[j])
             => normalizedData[i][1] <= normalizedData[j][1]

\* The palettes a colour is the first colour of.
tiersOf(representative) == {p \in Range(paletteValues) : p[1] = representative}

C19_WithinTierNoWorse ==
  op = "quantize" =>
    /\ TotalDistance(data, searches[3].bestPattern) <= TotalDistance(data, searches[2].bestPattern)
    /\ TotalDistance(data, searches[5].bestPattern) <= TotalDistance(data, searches[4].bestPattern)
    /\ \A k \in 2 .. 5 :
         searches[k].bestPatternDistance = TotalDistance(data, searches[k].bestPattern)

\* The colour found within the tier is strictly nearer than the tier's first
\* colour, for the background of one cell.
C19_Witness ==
  /\ op = "quantize"
  /\ TotalDistance(data, searches[3].bestPattern) < TotalDistance(data, searches[2].bestPattern)
  /\ searches[3].bestPattern.backgroundColor # searches[2].bestPattern.backgroundColor

\* The tile of the pattern equals the window at every opaque position.
ExactMatch(window, pattern) ==
  \A i \in OpaquePositions(window) :
    \A c \in 1 .. 3 : window[i][c] = ExpectedTile(pattern)[i][c]

\* C20: if the tile of some candidate equals the window at every opaque
\* position, getBestPattern returns a candidate whose tile does, with total
\* distance 0: an exact match is never passed over for a candidate that
\* differs from the window.
C20_ExactMatchWins ==
  (op = "search" /\ \E j \in DOMAIN patterns : ExactMatch(data, patterns[j])) =>
    /\ ExactMatch(data, bestPattern)
    /\ bestPatternDistance = 0

\* The second of two candidates matches a window of several opaque pixels
\* exactly, the first one does not, and the second was returned.
C20_Witness ==
  /\ op = "search"
  /\ Len(patterns) = 2
  /\ Cardinality(OpaquePositions(data)) >= 2
  /\ ~ExactMatch(data, patterns[1])
  /\ ExactMatch(data, patterns[2])
  /\ bestPattern = patterns[2]

(***************************************************************************)
(* C21: the tone depends on the alpha and the lightness of the window only *)
(***************************************************************************)
\* The colours a second window may hold: those of QuantizePixels and two
\* colours of the lightness of "hsl(0, 67%, 67%)" and of "hsl(240, 33%, 33%)".
TwinPixels == QuantizePixels \cup { <<2, 249, 9, 255>>, <<12, 52, 248, 255>> }

\* The two windows have the same alpha everywhere and the same lightness at
\* every opaque pixel.
SameAlphaAndLightness(w1, w2) ==
  \A i \in DOMAIN w1 :
    /\ w1[i][4] = w2[i][4]
    /\ w1[i][4] = 255 => average1000(w1[i]) = average1000(w2[i])

\* The windows of the alpha and lightness of window, whatever their colours.
twins(window) ==
  { w2 \in WindowsOver(TwinPixels, QuantizeWindowFree) : SameAlphaAndLightness(window, w2) }

\* What the cell would have selected for the window w2 at the same offsets.
twinSelection(w2) ==
  Only({ [toneType |-> q.toneType, backgroundColor |-> q.backgroundColor,
          foregroundColor |-> q.foregroundColor]
         : q \in {quantize(patternImageDataCache, patternCanvas, w2,
                           searches[1].patterns[1].offsetY, searches[1].patterns[1].offsetX)} })

\* C21: the candidates of the first search are one per tone, in the order of
\* toneTypes, all with background palettes.light[0] and foreground
\* palettes.dark[0]; and every window of the same alpha and of the same
\* lightness at every opaque pixel gets the same toneType at the same offsets.
C21_ToneFromLightnessOnly ==
  op = "quantize" =>
    /\ Len(searches[1].patterns) = Len(toneTypes)
    /\ \A i \in DOMAIN toneTypes :
         /\ searches[1].patterns[i].toneType = toneTypes[i]
         /\ searches[1].patterns[i].backgroundColor = palettes.light[1]
         /\ searches[1].patterns[i].foregroundColor = palettes.dark[1]
         /\ searches[1].patterns[i].offsetY = searches[1].patterns[1].offsetY
         /\ searches[1].patterns[i].offsetX = searches[1].patterns[1].offsetX
    /\ \A w2 \in twins(data) : twinSelection(w2).toneType = selection.toneType

\* A window quantized whose twin of other raw colours gets the same tone but
\* another colour.
C21_Witness ==
  /\ op = "quantize"
  /\ \E w2 \in twins(data) :
       /\ w2 # data
       /\ twinSelection(w2).toneType = selection.toneType
       /\ twinSelection(w2) # selection

(***************************************************************************)
(* C22: the filter suspends at the end of each row and nowhere else        *)
(***************************************************************************)
\* The step is a host event: a load call, the end of a decoding, a pointer
\* event, undo or redo.
hostEvent ==
  \/ used' # used
  \/ pending' # pending
  \/ transactionMode' # transactionMode

\* The run has processed some cells of its row and not all of them.
midRow(run) == run.status # "done" /\ 0 < run.x /\ run.x < run.shrinked.width

entriesAt(x, y, tx, ty) ==
  { j \in DOMAIN ditheringPattern :
      x + ditheringPattern[j].deltaX = tx /\ y + ditheringPattern[j].deltaY = ty }

\* C23: in the step of a cell the buffer keeps its size; a pixel of the
\* buffer that is the target of no entry of ditheringPattern is left as it
\* was, at the edges too, where the index of a target outside the buffer
\* would fall on a pixel of an adjacent row; and a pixel that is a target
\* gets the share of its own entry and nothing of the shares whose targets
\* are outside.
C23_OutsideTargetsDiscarded ==
  [][ \A r \in DOMAIN runs :
        (runs[r].status = "row" /\ runs'[r].x = runs[r].x + 1) =>
          /\ runs'[r].shrinked.width = runs[r].shrinked.width
          /\ runs'[r].shrinked.height = runs[r].shrinked.height
          /\ DOMAIN runs'[r].shrinked.data = DOMAIN runs[r].shrinked.data
          /\ \A i \in DOMAIN runs[r].shrinked.data :
               \E at \in {entriesAt(runs[r].x, runs[r].y,
                                    (i - 1) % runs[r].shrinked.width,
                                    (i - 1) \div runs[r].shrinked.width)} :
                 /\ at = {} => runs'[r].shrinked.data[i] = runs[r].shrinked.data[i]
                 /\ at # {} =>
                      /\ Cardinality(at) = 1
                      /\ \A j \in at : \A c \in 1 .. 3 :
                           runs'[r].shrinked.data[i][c] =
                             ToUint8Clamp(Num(runs[r].shrinked.data[i][c] * 32
                                              + runs'[r].error[c] * ditheringPattern[j].rate32, 32))
    ]_vars

\* The last cell of the buffer has been processed with an error to diffuse:
\* all four targets are outside.
C23_Witness ==
  \E r \in DOMAIN runs :
    /\ runs[r].cell # undefined
    /\ runs[r].cell.x = runs[r].shrinked.width - 1
    /\ runs[r].cell.y = runs[r].shrinked.height - 1
    /\ runs[r].x = runs[r].shrinked.width
    /\ runs[r].error # <<0, 0, 0>>

(***************************************************************************)
(* C24: diffusion leaves the alpha alone and keeps the channels bytes      *)
(***************************************************************************)
\* The opaque positions of the window of every cell of a buffer.
opaqueOfWindows(element) ==
  [k \in 1 .. element.width * element.height |->
     OpaquePositions(getImageData(element,
                                  ((k - 1) % element.width) - tonePeriod \div 2,
                                  ((k - 1) \div element.width) - tonePeriod \div 2,
                                  tonePeriod, tonePeriod))]

\* C24: no step changes the alpha of a pixel of a run's buffer, so the opaque
\* positions of the window of every cell stay what they were; and every
\* channel of every pixel of the buffer is an integer of 0..255 in every
\* state.
C24_AlphaKeptChannelsBytes ==
  /\ [][ \A r \in DOMAIN runs :
           /\ \A i \in DOMAIN runs[r].shrinked.data :
                runs'[r].shrinked.data[i][4] = runs[r].shrinked.data[i][4]
           /\ opaqueOfWindows(runs'[r].shrinked) = opaqueOfWindows(runs[r].shrinked)
       ]_vars
  /\ [](\A r \in DOMAIN runs : \A i \in DOMAIN runs[r].shrinked.data :
          \A c \in 1 .. 4 : runs[r].shrinked.data[i][c] \in 0 .. 255)

\* A cell has diffused an error that lowered a channel of the buffer, and a
\* window of the buffer has positions that are not opaque.
C24_Witness ==
  \E r \in DOMAIN runs :
    /\ runs[r].cell # undefined
    /\ \E c \in 1 .. 3 : runs[r].error[c] < 0 /\ runs[r].applied[c] < 0
    /\ \E k \in DOMAIN opaqueOfWindows(runs[r].shrinked) :
         /\ opaqueOfWindows(runs[r].shrinked)[k] # {}
         /\ opaqueOfWindows(runs[r].shrinked)[k] # 1 .. tonePeriod * tonePeriod

(***************************************************************************)
(* C25: the offsets address slots of the preallocated cache                *)
(***************************************************************************)
\* Largest cell coordinate for which the offset is computed apart from a run.
MaxCell == 9

\* C25: the offsets of every cell processed are integers of 0 .. P - 1, as
\* are those of the cells up to MaxCell; and every slot of
\* patternImageDataCache the filter has filled is one of PatternKeys, the
\* slots the cache is preallocated with.
C25_OffsetsAddressSlots ==
  /\ \A r \in DOMAIN runs :
       runs[r].cell # undefined =>
         /\ runs[r].cell.offsetY \in Range(tonePeriodRange)
         /\ runs[r].cell.offsetX \in Range(tonePeriodRange)
         /\ runs[r].cell.offsetY = offsetOf(runs[r].cell.y - tonePeriod \div 2)
         /\ runs[r].cell.offsetX = offsetOf(runs[r].cell.x - tonePeriod \div 2)
  /\ \A k \in 0 .. MaxCell : offsetOf(k - tonePeriod \div 2) \in Range(tonePeriodRange)
  /\ DOMAIN patternImageDataCache \subseteq PatternKeys

\* A cell whose window begins left of the buffer has been searched and its
\* tiles are in the cache.
C25_Witness ==
  \E r \in DOMAIN runs :
    /\ runs[r].cell # undefined
    /\ runs[r].cell.x - tonePeriod \div 2 < 0
    /\ runs[r].cell.offsetX = 1
    /\ \E k \in DOMAIN patternImageDataCache : k.offsetX = 1

(***************************************************************************)
(* C26: colorDiffCache memoizes colorDiff                                  *)
(***************************************************************************)
\* The numbers a key reads as: the characters between the "-" taken as
\* decimal numbers, from the i-th character on; n is the number begun.
RECURSIVE numbersFrom(_, _, _, _)
numbersFrom(key, i, numbers, n) ==
  IF i > Len(key) THEN Append(numbers, n)
  ELSE IF key[i] = "-" THEN numbersFrom(key, i + 1, Append(numbers, n), 0)
  ELSE numbersFrom(key, i + 1, numbers,
                   n * 10 + (CHOOSE d \in 0 .. 9 : digitChars[d + 1] = key[i]))

keyNumbers(key) == numbersFrom(key, 1, <<>>, 0)

\* The colours of the pixels a search of the cell compares: the opaque pixels
\* of the window, as they are and normalized, and the palette colours a tile
\* is made of.
comparedPixels(cell) ==
  { <<w[i][1], w[i][2], w[i][3]>> :
      i \in {j \in DOMAIN cell.window : cell.window[j][4] = 255},
      w \in {cell.window, normalizeAsync(cell.window)} }

tileColors == { ColorRGB(colors[i]) : i \in DOMAIN colors }

\* C26: no step removes a key of colorDiffCache or changes the value stored
\* for it; every key a step adds reads as six numbers, is the key of the two
\* triples they form, and holds the colorDiff of these triples; and the key of
\* every pixel and tile colour the cell of the step may compare reads back as
\* exactly these, so two different pairs never have one key.
C26_ColorDiffCacheFaithful ==
  [][ /\ \A k \in DOMAIN colorDiffCache :
           k \in DOMAIN colorDiffCache' /\ colorDiffCache'[k] = colorDiffCache[k]
      /\ \A k \in DOMAIN colorDiffCache' \ DOMAIN colorDiffCache :
           \E n \in {keyNumbers(k)} :
             /\ Len(n) = 6
             /\ colorDiffKey(<<n[1], n[2], n[3]>>, <<n[4], n[5], n[6]>>) = k
             /\ colorDiffCache'[k] = colorDiff(<<n[1], n[2], n[3]>>, <<n[4], n[5], n[6]>>)
      /\ \A r \in DOMAIN runs :
           (runs[r].status = "row" /\ runs'[r].x = runs[r].x + 1) =>
             \A p \in comparedPixels(runs'[r].cell) : \A t \in tileColors :
               keyNumbers(colorDiffKey(p, t)) = p \o t
    ]_vars

\* A run has finished and the cache holds the difference of a pixel to its
\* own colour and, under a key of 16 characters, a difference that is not 0.
C26_Witness ==
  /\ \E r \in DOMAIN runs : runs[r].status = "done"
  /\ \E k \in DOMAIN colorDiffCache : colorDiffCache[k] = 0
  /\ \E k \in DOMAIN colorDiffCache : colorDiffCache[k] > 0 /\ Len(k) = 16

(***************************************************************************)
(* SpecSync: the widget of the part_000 snapshot, whose load applies the   *)
(* filter in one piece to every image it has decoded (part_000:318-380).   *)
(* runs records the filter's applications, in order.                       *)
(***************************************************************************)
\* part_000:465-629: the body of the loops for cell (x, y), with the searches
\* of part_000:528-582 on the scratch canvas.
mibaeCellSync(shrinked, element, zoom, cache, scratch, x, y) ==
  Only({ Only({ Only({ Only({
    [shrinked |-> diffuse(shrinked, original, put, x, y, 1),
     canvas |-> stamped, cache |-> q.cache, scratch |-> q.canvas]
    : original \in {getImageData(shrinked, x, y, 1, 1)[1]},
      put \in {getImageData(stamped, putPosition(x, y, zoom)[1], putPosition(x, y, zoom)[2], 1, 1)[1]} })
    : stamped \in {fillRect(element, IF tones[q.toneType][(y % tonePeriod) + 1][(x % tonePeriod) + 1] # 0
                     THEN q.foregroundColor ELSE q.backgroundColor,
                     stampRect(x, y, zoom).x, stampRect(x, y, zoom).y, stampRect(x, y, zoom).w, stampRect(x, y, zoom).h)} })
    : q \in {quantize(cache, scratch, window, offsetY, offsetX)} })
    : window \in {getImageData(shrinked, x - tonePeriod \div 2, y - tonePeriod \div 2, tonePeriod, tonePeriod)},
      offsetY \in {offsetOf(y - tonePeriod \div 2)}, offsetX \in {offsetOf(x - tonePeriod \div 2)} })

\* part_000:463-631: the cells from the k-th on, row by row.
RECURSIVE mibaeCellsSync(_, _, _)
mibaeCellsSync(st, zoom, k) ==
  Only({ IF at >= now.shrinked.width * now.shrinked.height THEN now
         ELSE mibaeCellsSync(mibaeCellSync(now.shrinked, now.canvas, zoom, now.cache, now.scratch,
                                           at % now.shrinked.width, at \div now.shrinked.width),
                             zoom, at + 1)
         : now \in {st}, at \in {k} })

\* part_000:433-632: applyMibaeFilter; the canvas, the tile cache and the
\* scratch canvas it leaves.
applyMibaeFilterSync(element, zoom, cache, scratch) ==
  mibaeCellsSync([shrinked |-> shrink(element, zoom), canvas |-> element,
                  cache |-> cache, scratch |-> scratch], zoom, 0)

\* The load calls the host makes (part_000:318-324).  restores tells the
\* calls putImageFromHistory makes from the host's.
SyncRequests == [src : SourceImages, pushesImageToHistory : BOOLEAN, restores : {FALSE}]

\* part_000:318-340: load is called; its image is being decoded.
loadSync ==
  \E request \in SyncRequests :
    /\ used.load < MaxLoads
    /\ pending' = Append(pending, request)
    /\ used' = [used EXCEPT !.load = @ + 1]
    /\ UNCHANGED <<patternImageDataCache, searchVars, canvas, actualZoom, colorDiffCache,
                   runs, current, history, historyIndex, transactionMode, prevPosition>>
    /\ UNCHANGED <<pointerVars, dialogVars>>

\* part_000:342-380: the image of a pending load is decoded; the canvas is
\* sized and painted, the filter applied and, if asked, the result pushed.
imageLoadedSync ==
  \E i \in DOMAIN pending : \E p \in {pending[i]} : \E set \in {loaded(pending[i].src)} :
  \E f \in {applyMibaeFilterSync(set.canvas, set.actualZoom, patternImageDataCache,
                                 patternCanvas)} :
  \E pushed \in {pushImageToHistory(f.canvas, history, historyIndex)} :
    /\ pending' = SubSeq(pending, 1, i - 1) \o SubSeq(pending, i + 1, Len(pending))
    /\ actualZoom' = set.actualZoom
    /\ canvas' = f.canvas
    /\ patternImageDataCache' = f.cache
    /\ patternCanvas' = f.scratch
    /\ runs' = Append(runs, [src |-> p.src, zoom |-> set.actualZoom, status |-> "done",
                             restores |-> p.restores, output |-> f.canvas])
    /\ history' = IF p.pushesImageToHistory THEN pushed.history ELSE history
    /\ historyIndex' = IF p.pushesImageToHistory THEN pushed.historyIndex ELSE historyIndex
    /\ IF p.pushesImageToHistory /\ pushed.dispatches
       THEN dispatched(pushed.history, pushed.historyIndex)
       ELSE UNCHANGED dialogVars
    /\ UNCHANGED <<data, patterns, bestPattern, bestPatternDistance, selection, normalizedData,
                   tile, op, calls, searches, colorDiffCache, current, transactionMode,
                   prevPosition, used>>
    /\ UNCHANGED pointerVars

\* part_000:743-748: putImageFromHistory.  history[historyIndex] is undefined
\* while the history is empty: that load never gets an image.
putImageFromHistorySync(hi) ==
  IF hi >= 0
  THEN Append(pending, [src |-> history[hi + 1], pushesImageToHistory |-> FALSE,
                        restores |-> TRUE])
  ELSE pending

\* part_000:408-416
undoSync ==
  /\ used.restore < MaxRestores
  /\ ~(historyIndex < 1)
  /\ historyIndex' = historyIndex - 1
  /\ dispatched(history, historyIndex - 1)
  /\ pending' = putImageFromHistorySync(historyIndex - 1)
  /\ used' = [used EXCEPT !.restore = @ + 1]
  /\ UNCHANGED <<patternImageDataCache, searchVars, canvas, actualZoom, colorDiffCache,
                 runs, current, history, transactionMode, prevPosition>>
  /\ UNCHANGED pointerVars

\* part_000:382-390
redoSync ==
  /\ used.restore < MaxRestores
  /\ ~(historyIndex >= Len(history) - 1)
  /\ historyIndex' = historyIndex + 1
  /\ dispatched(history, historyIndex + 1)
  /\ pending' = putImageFromHistorySync(historyIndex + 1)
  /\ used' = [used EXCEPT !.restore = @ + 1]
  /\ UNCHANGED <<patternImageDataCache, searchVars, canvas, actualZoom, colorDiffCache,
                 runs, current, history, transactionMode, prevPosition>>
  /\ UNCHANGED pointerVars

\* part_000:870-902, this.transactionMode = "shape".
handlePointerCancelSync ==
  /\ transactionMode = "shape"
  /\ pending' = putImageFromHistorySync(historyIndex)
  /\ transactionMode' = noTransaction
  /\ UNCHANGED <<patternImageDataCache, searchVars, canvas, actualZoom, colorDiffCache,
                 runs, current, history, historyIndex, prevPosition, used>>
  /\ UNCHANGED <<pointerVars, dialogVars>>

InitSync ==
  /\ patternImageDataCache = emptyCache
  /\ patternCanvas = createCanvas(tonePeriod, tonePeriod)
  /\ data = <<>>
  /\ patterns = <<>>
  /\ bestPattern = undefined
  /\ bestPatternDistance = Infinity
  /\ selection = undefined
  /\ normalizedData = <<>>
  /\ tile = <<>>
  /\ op = "none"
  /\ calls = 0
  /\ searches = <<>>
  /\ InitWidget

NextSync ==
  \/ loadSync
  \/ imageLoadedSync
  \/ undoSync
  \/ redoSync
  \/ handlePointerDown
  \/ handlePointerCancelSync

SpecSync == InitSync /\ [][NextSync]_vars

(***************************************************************************)
(* C27: restoring from history does not filter                             *)
(***************************************************************************)
\* C27: the filter is applied to no image that putImageFromHistory loads
\* (undo, redo, cancel of a shape stroke).
C27_RestoreNeverFilters ==
  \A r \in DOMAIN runs : ~runs[r].restores

(***************************************************************************)
(* C28: a filtering load pushes after the last row                         *)
(***************************************************************************)
\* The step is one of the load of run r: the run moves on in its buffer or
\* changes its status.
stepOf(r) ==
  \/ runs'[r].x # runs[r].x
  \/ runs'[r].y # runs[r].y
  \/ runs'[r].status # runs[r].status

\* C28: the step in which a load enters the filter pushes nothing; a step of
\* a run changes the history only if it ends the run, with every row
\* processed, and the load was asked to push; and the step that ends such a
\* run leaves the canvas of that moment as the current entry.
C28_PushAfterLastRow ==
  [][ /\ Len(runs') > Len(runs) => history' = history /\ historyIndex' = historyIndex
      /\ \A r \in DOMAIN runs :
           /\ (stepOf(r) /\ (history' # history \/ historyIndex' # historyIndex))
                => /\ runs[r].pushesImageToHistory
                   /\ runs'[r].status = "done"
                   /\ runs'[r].y = runs[r].shrinked.height
                   /\ runs[r].y = runs[r].shrinked.height - 1
                   /\ runs[r].x = runs[r].shrinked.width
           /\ (stepOf(r) /\ runs'[r].status = "done" /\ runs[r].pushesImageToHistory)
                => /\ historyIndex' >= 0
                   /\ history'[historyIndex' + 1] = canvas'
    ]_vars

\* A load with both flags has finished a filter of more than one row and its
\* output is the current entry of the history, pushed after an earlier entry.
C28_Witness ==
  \E r \in DOMAIN runs :
    /\ runs[r].status = "done"
    /\ runs[r].pushesImageToHistory
    /\ runs[r].shrinked.height > 1
    /\ historyIndex >= 1
    /\ history[historyIndex + 1] = runs[r].output

(***************************************************************************)
(* SpecHistory: the history under many pushes.  The host loads images      *)
(* without the filter and with pushesImageToHistory, one at a time, and    *)
(* calls undo and redo (README:403-504 and 787-816).                       *)
(***************************************************************************)
\* Number of loads that may be waiting for their image.
MaxPending == 1

\* README:403-428: load({src, applysMibaeFilter: false, pushesImageToHistory:
\* true}) is called; its image is being decoded.
loadPushing ==
  \E src \in SourceImages :
    /\ current = 0
    /\ Len(pending) < MaxPending
    /\ pending' = Append(pending, [src |-> src, applysMibaeFilter |-> FALSE,
                                   pushesImageToHistory |-> TRUE])
    /\ UNCHANGED <<patternImageDataCache, searchVars, canvas, actualZoom, colorDiffCache,
                   runs, current, history, historyIndex, transactionMode, prevPosition, used>>
    /\ UNCHANGED <<pointerVars, dialogVars>>

NextHistory ==
  \/ loadPushing
  \/ imageLoaded
  \/ undo
  \/ redo

SpecHistory == Init /\ [][NextHistory]_vars

(***************************************************************************)
(* C29: historyIndex stays inside the history                              *)
(***************************************************************************)
\* C29: -1 <= historyIndex <= Len(history) - 1, and historyIndex is -1
\* exactly when the history is empty; a call of undo or redo that gets past
\* its early return moves historyIndex by one, undo down from an index of at
\* least 1 and redo up from an index below the last, and leaves the list as
\* it is.
C29_HistoryIndexInside ==
  /\ [](/\ -1 <= historyIndex
        /\ historyIndex <= Len(history) - 1
        /\ (historyIndex = -1) <=> (history = <<>>))
  /\ [][ used'.restore # used.restore =>
           /\ history' = history
           /\ \/ historyIndex >= 1 /\ historyIndex' = historyIndex - 1
              \/ historyIndex < Len(history) - 1 /\ historyIndex' = historyIndex + 1
       ]_vars

\* After undo and redo calls the index is below the last entry of a history
\* from which the oldest entries have been dropped.
C29_Witness ==
  /\ used.restore = MaxRestores
  /\ historyIndex = Len(history) - 2
  /\ Len(history) > historyMaxLength

(***************************************************************************)
(* C30: the length of the history                                          *)
(***************************************************************************)
\* C30: the history never holds more than historyMaxLength entries.
C30_HistoryAtMostMax ==
  Len(history) <= historyMaxLength

(***************************************************************************)
(* C31: a push drops the redo tail; a push of the current entry is a no-op *)
(***************************************************************************)
\* The pending loads without the i-th.
without(i) == SubSeq(pending, 1, i - 1) \o SubSeq(pending, i + 1, Len(pending))

\* C31: when a load that pushes completes with an image equal to
\* history[historyIndex], history, historyIndex, the last event dispatched
\* and the buttons stay as they are.  Otherwise the new history is entries
\* of the old one up to historyIndex, in order, followed by the image: no
\* entry after historyIndex survives, historyIndex is the last index, so
\* that redo is at its early return (README:471-473), and one event has
\* been dispatched.
C31_PushDropsRedoTail ==
  [][ \A i \in DOMAIN pending :
        (pending' = without(i) /\ pending[i].pushesImageToHistory) =>
          IF historyIndex >= 0 /\ canvas' = history[historyIndex + 1]
          THEN UNCHANGED <<history, historyIndex, dialogVars>>
          ELSE /\ historyIndex' = Len(history') - 1
               /\ historyIndex' >= Len(history') - 1
               /\ history'[Len(history')] = canvas'
               /\ Len(history') - 1 <= historyIndex + 1
               /\ \A k \in 1 .. Len(history') - 1 :
                     history'[k] = history[historyIndex + 1 - (Len(history') - 1) + k]
               /\ kanvasHistoryChange'.n # kanvasHistoryChange.n
               /\ kanvasHistoryChange'.detail =
                     [history |-> history', historyIndex |-> historyIndex']
    ]_vars

\* One call of undo or redo has been made, which can only be an undo, and
\* historyIndex is at the last entry again: an image was pushed after the
\* undo, over the entry the undo had left.
C31_Witness ==
  /\ used.restore = 1
  /\ pending = <<>>
  /\ Len(history) >= 2
  /\ historyIndex = Len(history) - 1

(***************************************************************************)
(* SpecPointer: pointer transactions.  An image has been loaded without    *)
(* the filter, pushed to the history or not; the host calls setMode, undo  *)
(* and redo, and the pointer listener delivers kanvasPointerDown, -Move,   *)
(* -Up and -Cancel events in any order (README:354-368).  Each event runs  *)
(* its handler whole, the early return included.                           *)
(***************************************************************************)
\* Number of pointer events delivered.
MaxPointerEvents == 5

\* README:295: this.text; the host makes no setText call.
text == ""

\* README:717-739: displayTextPreviewRect; left and top of the preview are
\* position * displayingZoom + 1.
displayTextPreviewRect(position) == [textContent |-> text, position |-> position]

\* README:915-919: fillText(this.text, ...) paints nothing for the empty text.
fillText(element, string, position) == element

\* README:391-393
setMode ==
  \E m \in {"shape", "text"} :
    /\ current = 0
    /\ m # mode
    /\ mode' = m
    /\ UNCHANGED <<patternImageDataCache, searchVars, canvas, actualZoom, colorDiffCache,
                   runs, current, pending, history, historyIndex, transactionMode,
                   prevPosition, used, textPreviewRect, pointerEvent, dialogVars>>

\* The event delivered; returns tells that the handler returned at its
\* first test.
delivered(type, returns) ==
  /\ pointerEvent.n < MaxPointerEvents
  /\ pointerEvent' = [type |-> type, n |-> pointerEvent.n + 1, returns |-> returns]

\* Mutant: handlePointerDown without its early return.
kanvasPointerDownReopening ==
  \E position \in Positions :
    /\ current = 0
    /\ delivered("kanvasPointerDown", FALSE)
    /\ transactionMode' = mode
    /\ canvas' = IF mode = "shape" THEN drawPoint(canvas, actualZoom, position) ELSE canvas
    /\ textPreviewRect' = IF mode = "text" THEN displayTextPreviewRect(position)
                                            ELSE textPreviewRect
    /\ prevPosition' = position
    /\ runs' = interrupt(runs, 0)
    /\ UNCHANGED <<patternImageDataCache, searchVars, actualZoom, colorDiffCache, current,
                   pending, history, historyIndex, used, mode, dialogVars>>

\* README:354-358 and 820-851: handlePointerDown
kanvasPointerDown ==
  \E position \in Positions :
    /\ current = 0
    /\ delivered("kanvasPointerDown", transactionMode # noTransaction)
    /\ IF transactionMode # noTransaction
       THEN UNCHANGED <<transactionMode, canvas, textPreviewRect, prevPosition, runs>>
       ELSE /\ transactionMode' = mode
            /\ canvas' = IF mode = "shape" THEN drawPoint(canvas, actualZoom, position)
                                           ELSE canvas
            /\ textPreviewRect' = IF mode = "text" THEN displayTextPreviewRect(position)
                                                    ELSE textPreviewRect
            /\ prevPosition' = position
            /\ runs' = interrupt(runs, 0)
    /\ UNCHANGED <<patternImageDataCache, searchVars, actualZoom, colorDiffCache, current,
                   pending, history, historyIndex, used, mode, dialogVars>>

\* README:359-363 and 853-885: handlePointerMove
kanvasPointerMove ==
  \E position \in Positions :
    /\ current = 0
    /\ delivered("kanvasPointerMove", transactionMode = noTransaction)
    /\ IF transactionMode = noTransaction
       THEN UNCHANGED <<canvas, textPreviewRect, prevPosition, runs>>
       ELSE /\ canvas' = IF transactionMode = "shape"
                         THEN drawLine(canvas, actualZoom, prevPosition, position)
                         ELSE canvas
            /\ textPreviewRect' = IF transactionMode = "text"
                                  THEN displayTextPreviewRect(position)
                                  ELSE textPreviewRect
            /\ prevPosition' = position
            /\ runs' = interrupt(runs, 0)
    /\ UNCHANGED <<patternImageDataCache, searchVars, actualZoom, colorDiffCache, current,
                   pending, history, historyIndex, transactionMode, used, mode, dialogVars>>

\* README:364 and 887-936: handlePointerUp
kanvasPointerUp ==
  \E position \in Positions :
    /\ current = 0
    /\ delivered("kanvasPointerUp", transactionMode = noTransaction)
    /\ IF transactionMode = noTransaction
       THEN UNCHANGED <<canvas, textPreviewRect, runs, history, historyIndex,
                        transactionMode, dialogVars>>
       ELSE \E drawn \in {IF transactionMode = "shape"
                           THEN drawLine(canvas, actualZoom, prevPosition, position)
                           ELSE fillText(canvas, text, position)} :
            \E pushed \in {pushImageToHistory(drawn, history, historyIndex)} :
              /\ canvas' = drawn
              /\ textPreviewRect' = IF transactionMode = "text"
                                    THEN [textPreviewRect EXCEPT !.textContent = ""]
                                    ELSE textPreviewRect
              /\ history' = pushed.history
              /\ historyIndex' = pushed.historyIndex
              /\ IF pushed.dispatches
                 THEN dispatched(pushed.history, pushed.historyIndex)
                 ELSE UNCHANGED dialogVars
              /\ transactionMode' = noTransaction
              /\ runs' = interrupt(runs, 0)
    /\ UNCHANGED <<patternImageDataCache, searchVars, actualZoom, colorDiffCache, current,
                   pending, prevPosition, used, mode>>

\* README:810-816 called from handlePointerCancel: history[historyIndex] is
\* undefined while the history is empty, and that load never gets an image.
putImageFromHistoryIfAny(hi) ==
  IF hi >= 0 THEN putImageFromHistory(hi) ELSE pending

\* Mutant: handlePointerCancel ends with the push of handlePointerUp.
kanvasPointerCancelPushing ==
  /\ current = 0
  /\ delivered("kanvasPointerCancel", transactionMode = noTransaction)
  /\ IF transactionMode = noTransaction
     THEN UNCHANGED <<pending, textPreviewRect, transactionMode, history, historyIndex,
                      dialogVars>>
     ELSE \E pushed \in {pushImageToHistory(canvas, history, historyIndex)} :
            /\ pending' = IF transactionMode = "shape"
                          THEN putImageFromHistoryIfAny(historyIndex) ELSE pending
            /\ textPreviewRect' = IF transactionMode = "text"
                                  THEN [textPreviewRect EXCEPT !.textContent = ""]
                                  ELSE textPreviewRect
            /\ history' = pushed.history
            /\ historyIndex' = pushed.historyIndex
            /\ IF pushed.dispatches
               THEN dispatched(pushed.history, pushed.historyIndex)
               ELSE UNCHANGED dialogVars
            /\ transactionMode' = noTransaction
  /\ UNCHANGED <<patternImageDataCache, searchVars, canvas, actualZoom, colorDiffCache, runs,
                 current, prevPosition, used, mode>>

\* README:365-368 and 938-969: handlePointerCancel
kanvasPointerCancel ==
  /\ current = 0
  /\ delivered("kanvasPointerCancel", transactionMode = noTransaction)
  /\ IF transactionMode = noTransaction
     THEN UNCHANGED <<pending, textPreviewRect, transactionMode>>
     ELSE /\ pending' = IF transactionMode = "shape"
                        THEN putImageFromHistoryIfAny(historyIndex) ELSE pending
          /\ textPreviewRect' = IF transactionMode = "text"
                                THEN [textPreviewRect EXCEPT !.textContent = ""]
                                ELSE textPreviewRect
          /\ transactionMode' = noTransaction
  /\ UNCHANGED <<patternImageDataCache, searchVars, canvas, actualZoom, colorDiffCache, runs,
                 current, history, historyIndex, prevPosition, used, mode, dialogVars>>

\* README:403-468: the widget after load({src, applysMibaeFilter: false,
\* pushesImageToHistory}) of the square image has completed.
InitPointer ==
  /\ patternImageDataCache = emptyCache
  /\ patternCanvas = createCanvas(tonePeriod, tonePeriod)
  /\ data = <<>>
  /\ patterns = <<>>
  /\ bestPattern = undefined
  /\ bestPatternDistance = Infinity
  /\ selection = undefined
  /\ normalizedData = <<>>
  /\ tile = <<>>
  /\ op = "none"
  /\ calls = 0
  /\ searches = <<>>
  /\ \E pushesImageToHistory \in BOOLEAN : \E set \in {loaded(squareImage)} :
       /\ canvas = set.canvas
       /\ actualZoom = set.actualZoom
       /\ history = IF pushesImageToHistory THEN <<set.canvas>> ELSE <<>>
       /\ historyIndex = IF pushesImageToHistory THEN 0 ELSE -1
       /\ kanvasHistoryChange =
            IF pushesImageToHistory
            THEN [n |-> 1, detail |-> [history |-> <<set.canvas>>, historyIndex |-> 0]]
            ELSE [n |-> 0, detail |-> undefined]
  /\ colorDiffCache = <<>>
  /\ runs = <<>>
  /\ current = 0
  /\ pending = <<>>
  /\ transactionMode = noTransaction
  /\ prevPosition = <<0, 0>>
  /\ used = [load |-> 1, stroke |-> 0, restore |-> 0]
  /\ mode = "shape"
  /\ textPreviewRect = [textContent |-> "", position |-> <<0, 0>>]
  /\ pointerEvent = [type |-> "none", n |-> 0, returns |-> FALSE]
  /\ undoButton = [disabled |-> TRUE]
  /\ redoButton = [disabled |-> TRUE]

NextPointer ==
  \/ setMode
  \/ kanvasPointerDown
  \/ kanvasPointerMove
  \/ kanvasPointerUp
  \/ kanvasPointerCancel
  \/ undo
  \/ redo
  \/ imageLoaded

SpecPointer == InitPointer /\ [][NextPointer]_vars

(***************************************************************************)
(* C32: one pointer transaction at a time, of the kind it was opened with  *)
(***************************************************************************)
\* Everything but the record of the event delivered.
widgetState ==
  <<canvas, actualZoom, colorDiffCache, runs, current, pending, history, historyIndex,
    transactionMode, prevPosition, used, mode, textPreviewRect, dialogVars>>

\* The step delivers a pointer event of one of the types.
delivers(types) ==
  /\ pointerEvent'.n # pointerEvent.n
  /\ pointerEvent'.type \in types

\* C32: a kanvasPointerDown delivered while transactionMode is set, and a
\* kanvasPointerMove, -Up or -Cancel delivered while it is not, change no
\* field of the widget, the canvas, the history, the pending loads and the
\* dialog included.  A kanvasPointerDown delivered while no transaction is
\* open sets transactionMode to the mode of that moment.  While a
\* transaction is open transactionMode changes only by becoming undefined,
\* in a step of kanvasPointerUp or kanvasPointerCancel: calls of setMode
\* leave it alone, and the handlers go by it and not by mode (a text
\* transaction leaves the canvas alone when the pointer moves, a shape
\* transaction leaves the text preview alone).
C32_OneTransactionOfItsKind ==
  [][ /\ (delivers({"kanvasPointerDown"}) /\ transactionMode # noTransaction)
           => UNCHANGED widgetState
      /\ (delivers({"kanvasPointerMove", "kanvasPointerUp", "kanvasPointerCancel"})
             /\ transactionMode = noTransaction)
           => UNCHANGED widgetState
      /\ (delivers({"kanvasPointerDown"}) /\ transactionMode = noTransaction)
           => transactionMode' = mode
      /\ transactionMode # noTransaction =>
           /\ transactionMode' \in {transactionMode, noTransaction}
           /\ transactionMode' = noTransaction
                => delivers({"kanvasPointerUp", "kanvasPointerCancel"})
           /\ mode' # mode => transactionMode' = transactionMode
           /\ (transactionMode = "text" /\ delivers({"kanvasPointerMove"}))
                => canvas' = canvas
           /\ (transactionMode = "shape" /\ delivers({"kanvasPointerMove", "kanvasPointerUp"}))
                => textPreviewRect' = textPreviewRect
    ]_vars

\* A kanvasPointerDown has just returned at its first test, inside a shape
\* transaction opened before the mode was set to "text".
C32_Witness ==
  /\ pointerEvent.type = "kanvasPointerDown"
  /\ pointerEvent.returns
  /\ transactionMode = "shape"
  /\ mode = "text"

(***************************************************************************)
(* C33: pointerUp and pointerCancel end the transaction                    *)
(***************************************************************************)
\* C33: a kanvasPointerUp or kanvasPointerCancel delivered while a
\* transaction is open leaves transactionMode undefined.  After the
\* kanvasPointerUp, history and historyIndex are what one call of
\* pushImageToHistory makes of them for the canvas the step leaves; the
\* kanvasPointerCancel leaves history and historyIndex as they are and
\* dispatches no event.
C33_UpAndCancelEnd ==
  [][ transactionMode # noTransaction =>
        /\ delivers({"kanvasPointerUp"}) =>
              /\ transactionMode' = noTransaction
              /\ history' = pushImageToHistory(canvas', history, historyIndex).history
              /\ historyIndex' = pushImageToHistory(canvas', history, historyIndex).historyIndex
              /\ Len(history') <= Len(history) + 1
        /\ delivers({"kanvasPointerCancel"}) =>
              /\ transactionMode' = noTransaction
              /\ UNCHANGED <<history, historyIndex, dialogVars>>
    ]_vars

\* A shape transaction has just been cancelled, after an earlier one was
\* ended by kanvasPointerUp and pushed; the restore is being decoded.
C33_Witness ==
  /\ pointerEvent.type = "kanvasPointerCancel"
  /\ ~pointerEvent.returns
  /\ transactionMode = noTransaction
  /\ Len(history) >= 2
  /\ pending # <<>>

(***************************************************************************)
(* C34: the canvas and the history position under restores                 *)
(***************************************************************************)
\* C34: whenever no load is waiting for its image and no transaction is
\* open, the canvas is the entry of the history at historyIndex.
C34_CanvasShowsHistoryEntry ==
  (pending = <<>> /\ transactionMode = noTransaction /\ historyIndex >= 0)
    => canvas = history[historyIndex + 1]

(***************************************************************************)
(* C35: the dialog's buttons after a kanvasHistoryChange event             *)
(***************************************************************************)
\* C35: once an event has been dispatched, the undo button is enabled
\* exactly when the historyIndex of the last event is at least 1, and the
\* redo button exactly when it is below the last index of the history the
\* event carries.
C35_ButtonsReflectPosition ==
  "historyIndex" \in DOMAIN kanvasHistoryChange.detail =>
    /\ (~undoButton.disabled) <=> (kanvasHistoryChange.detail.historyIndex >= 1)
    /\ (~redoButton.disabled) <=>
          (kanvasHistoryChange.detail.historyIndex
             < Len(kanvasHistoryChange.detail.history) - 1)

(***************************************************************************)
(* C36: the staged colour search is not jointly optimal                    *)
(***************************************************************************)
\* Two pixels of palettes.dark[2] and one of palettes.light[1], the others
\* transparent.
greedyWindow ==
  [i \in 1 .. tonePeriod * tonePeriod |->
     IF i \in {FreePosition(1), FreePosition(2)} THEN ColorRGB(palettes.dark[2]) \o <<255>>
     ELSE IF i = FreePosition(3) THEN ColorRGB(palettes.light[1]) \o <<255>>
     ELSE TransparentBlack]

\* The pattern of the chosen tone and colours at the offsets of the cell.
selectedPattern ==
  Pattern(selection.toneType, selection.backgroundColor, selection.foregroundColor,
          patterns[1].offsetY, patterns[1].offsetX)

\* greedyWindow has been quantized at offsetY 1 and offsetX 0, where the
\* tone search chooses "fill".
atGreedyCell ==
  /\ op = "quantize"
  /\ data = greedyWindow
  /\ patterns[1].offsetY = 1
  /\ patterns[1].offsetX = 0

====
